---- MODULE Spec2Model ----
(***************************************************************************)
(* Model of the site-selection pipeline of pyggrid: the Resite             *)
(* orchestrator (src/resite/resite.py), its pyomo and gurobipy model       *)
(* backends (src/resite/models), the point filter                          *)
(* (src/data/land_data/manager.py) and the capacity-potential              *)
(* reconciliation (src/data/res_potential/manager.py).                     *)
(*                                                                         *)
(* Conventions.                                                            *)
(*  - A Point is a grid index 1..NPoints; a TechPoint is <<tech, point>>.  *)
(*  - Capacities (GW) are naturals counted in units of 0.005 GW, so that   *)
(*    the 0.01 GW threshold of build_input_data_new is 2 units.            *)
(*  - Fractions (capacity factors, x, y, RES targets) are counted in units *)
(*    of 1/Scale; a solver returns an optimum over that grid.              *)
(*  - A pandas Series / DataFrame is a function whose DOMAIN is its index; *)
(*    NaN is the value NaN below.                                          *)
(*  - The Resite object is the function resite from attribute names to    *)
(*    values (its __dict__): an attribute that was never assigned is not   *)
(*    in DOMAIN resite, and reading it raises AttributeError.              *)
(*  - raised is the exception that ended the last call ("None" when the    *)
(*    call returned), op the name of the last operation called.            *)
(***************************************************************************)
EXTENDS FiniteSets, Integers, Sequences, TLC

\* ------------------------------------------------------------------ bounds
NPoints == 2
NT == 2
MaxCap == 2
Scale == 2
MaxRegions == 2
MaxParams == 3
MaxLayers == 2

Points == 1..NPoints
Timestamps == 1..NT

\* ------------------------------------------------- names used by the code
\* A float quotient a / b is kept exact as the pair <<a, b>>; 0/0 is NaN and
\* a/0 with a > 0 is inf, as in pandas' Series.divide.
NaN == <<0, 0>>
Inf == <<1, 0>>
Divide(a, b) == IF b = 0 THEN (IF a = 0 THEN NaN ELSE Inf) ELSE <<a, b>>

RegionNames == <<"BE", "NL", "LU">>
TechNames == <<"wind_onshore", "pv_utility">>

Range(s) == {s[i] : i \in DOMAIN s}

AllTechPoints == Range(TechNames) \X Points

\* resite.py:129-130 / 233-234, technologies for which legacy data exists
LegacyTechs == {"wind_onshore", "wind_offshore", "pv_utility", "pv_residential"}

\* res_potential/manager.py:308
AcceptedTechs == {"wind_onshore", "wind_offshore", "wind_floating", "pv_utility", "pv_residential"}

\* resite.py:314
AcceptedModelling == {"pyomo", "docplex", "gurobipy"}

\* models/pyomo.py:27, models/gurobipy.py:27
AcceptedFormulations == {"meet_RES_targets_agg", "meet_RES_targets_hourly", "meet_demand_with_capacity"}

\* resite.py:308-310, formulations whose parameter vector is checked against the regions
RegionScopedFormulations ==
    {"meet_RES_targets_agg", "meet_RES_targets_hourly", "meet_RES_targets_daily",
     "meet_RES_targets_weekly", "meet_RES_targets_monthly", "maximize_generation",
     "maximize_aggr_cap_factor"}

\* land_data/manager.py:112-254, the layers filter_points_by_layer knows
KnownLayers ==
    {"protected_areas", "resource_quality", "orography", "forestry", "water_mask",
     "bathymetry", "population_density"}

\* variant of LandLayers without the orography layer
LandLayers_less == {"population_density", "protected_areas", "forestry", "water_mask"}

\* land_data/manager.py:326-328
LandLayers == {"orography", "population_density", "protected_areas", "forestry", "water_mask"}

\* tech_config[tech]["deployment"]
Deployment(tech) ==
    CASE tech = "wind_onshore" -> "onshore"
      [] tech = "wind_offshore" -> "offshore"
      [] tech = "wind_floating" -> "floating"
      [] tech = "pv_utility" -> "utility"
      [] OTHER -> "residential"

\* resite.py:248, 0.01 GW in units of 0.005 GW
PotentialCapThreshold == 2


\* ------------------------------------------------------------- variables
VARIABLES
    resite,     \* the Resite object: attribute name -> value
    world,      \* the read-only reference datasets of the run (spec section 5)
    config,     \* the run configuration the caller passes to the stage methods
    op,         \* name of the last operation called
    raised      \* exception class that ended it, "None" if it returned

vars == <<resite, world, config, op, raised>>

Has(obj, name) == name \in DOMAIN obj
SetAttr(obj, name, value) == (name :> value) @@ obj

\* A result of a call: the object after it and the exception that ended it.
Ok(obj) == [obj |-> obj, raised |-> "None"]
Raise(obj, exc) == [obj |-> obj, raised |-> exc]

\* Python's None as the value of resite.instance
NoneInstance == [kind |-> "None"]

\* resite.py:49-76  Resite.__init__ (timestamps are 1..NT, spatial_res is fixed)
Resite_init(regs, techs) ==
    SetAttr(SetAttr(SetAttr(<<>>, "technologies", techs), "regions", regs), "instance", NoneInstance)

\* --------------------------------------------------------- point filter
\* variant of filter_points_by_layer that also discards one of the points it is given
filter_points_by_layer_greedy(filter_name, points, tech) ==
    IF filter_name = "protected_areas" THEN [raised |-> "TypeError", points |-> points]
    ELSE IF filter_name \in KnownLayers
         THEN [raised |-> "None",
               points |-> points \ (world.mask[filter_name][tech]
                                      \cup {CHOOSE p \in points : \A q \in points : p <= q})]
         ELSE [raised |-> "ValueError", points |-> points]

\* land_data/manager.py:88-258  filter_points_by_layer.  world.mask[layer][tech]
\* are the points the layer's dataset and the technology's thresholds exclude.
\* The protected_areas branch rebinds points to a 2-d numpy array and then
\* evaluates set(points), which raises TypeError (unhashable numpy.ndarray).
filter_points_by_layer(filter_name, points, tech) ==
    IF filter_name = "protected_areas" THEN [raised |-> "TypeError", points |-> points]
    ELSE IF filter_name \in KnownLayers
         THEN [raised |-> "None", points |-> points \ world.mask[filter_name][tech]]
         ELSE [raised |-> "ValueError", points |-> points]

\* land_data/manager.py:316-331  the loop over filtering_layers for one
\* technology; applied lists the keys filter_points_by_layer was called with
RECURSIVE filter_layers(_, _, _, _, _)
filter_layers(filtering_layers, i, points, tech, applied) ==
    IF i > Len(filtering_layers) \/ points = {}
    THEN [raised |-> "None", points |-> points, applied |-> applied]
    ELSE LET key == filtering_layers[i][1]
             flag == filtering_layers[i][2]
             skip ==
                 \/ ~flag
                 \/ key = "bathymetry" /\ Deployment(tech) \in {"onshore", "utility", "residential"}
                 \/ key \in LandLayers /\ Deployment(tech) \in {"offshore", "floating"}
         IN IF skip THEN filter_layers(filtering_layers, i + 1, points, tech, applied)
            ELSE LET r == filter_points_by_layer(key, points, tech)
                 IN IF r.raised # "None"
                    THEN [raised |-> r.raised, points |-> r.points,
                          applied |-> Append(applied, key)]
                    ELSE filter_layers(filtering_layers, i + 1, r.points, tech,
                                       Append(applied, key))

\* land_data/manager.py:261-335  filter_points: technology -> surviving points,
\* or the exception of the first technology whose filtering raised.  Each
\* technology starts from copy(init_points); init_points is the caller's list
\* as the call leaves it, applied the calls made for each technology reached.
filter_points(techs, init_points, filtering_layers) ==
    LET res == [tech \in Range(techs) |->
                   filter_layers(filtering_layers, 1, init_points, tech, <<>>)]
        bad == {i \in DOMAIN techs : res[techs[i]].raised # "None"}
    IN IF bad = {}
       THEN [raised |-> "None", dict |-> [tech \in Range(techs) |-> res[tech].points],
             init_points |-> init_points,
             applied |-> [tech \in Range(techs) |-> res[tech].applied]]
       ELSE LET first == CHOOSE i \in bad : \A j \in bad : i <= j
            IN [raised |-> res[techs[first]].raised, dict |-> <<>>,
                init_points |-> init_points,
                applied |-> [tech \in {techs[k] : k \in 1..first} |-> res[tech].applied]]

\* ------------------------------------------------------ input building
Min(S) == CHOOSE x \in S : \A y \in S : x <= y

\* Flattening of a technology -> points mapping into TechPoint tuples (resite.py:145)
Tuples(dict) == UNION {{<<tech, p>> : p \in dict[tech]} : tech \in DOMAIN dict}

\* resite.py:141-142 / 170-173  a mapping without the technologies that have no point
DictOf(tuples) ==
    [tech \in {tp[1] : tp \in tuples} |-> {tp[2] : tp \in {q \in tuples : q[1] = tech}}]

\* variant of update_potential that leaves the computed potential as it is
update_potential_keeps(existing, potential) == potential

\* res_potential/manager.py:400-403 and resite.py:241-243: where the existing
\* capacity exceeds the potential, the potential becomes the existing capacity.
update_potential(existing, potential) ==
    [tp \in DOMAIN potential |->
        IF existing[tp] > potential[tp] THEN existing[tp] ELSE potential[tp]]

\* variant of get_capacity_potential that returns the apportioned potential as computed
get_capacity_potential_computed(tech_points_dict, existing_capacity_ds) ==
    [tp \in Tuples(tech_points_dict) |-> world.potential[tp]]

\* res_potential/manager.py:286-405  get_capacity_potential: the potential
\* apportioned to each point (world.potential), reconciled with existing capacity.
\* resite.py:156 calls it as get_capacity_potential_at_points of
\* src.data.vres_potential, a module the sources do not hold under that name.
get_capacity_potential(tech_points_dict, existing_capacity_ds) ==
    update_potential(existing_capacity_ds,
                     [tp \in Tuples(tech_points_dict) |-> world.potential[tp]])

\* resite.py:178-187 / 271-280  association of TechPoints to regions.  The
\* technologies are visited in the iteration order of tech_points_dict (order),
\* the regions in list order; an empty intersection is no MultiPoint and has no
\* coordinate x, so reading it raises AttributeError and leaves the mapping as
\* filled so far.
region_mapping(tech_points_dict, regs, order) ==
    LET techSeq == SelectSeq(order, LAMBDA t : t \in DOMAIN tech_points_dict)
        n == Len(techSeq) * Len(regs)
        tech(k) == techSeq[((k - 1) \div Len(regs)) + 1]
        region(k) == regs[((k - 1) % Len(regs)) + 1]
        inter(k) == tech_points_dict[tech(k)] \cap world.shapes[region(k)]
        failing == {k \in 1..n : inter(k) = {}}
        stop == IF failing = {} THEN n + 1 ELSE Min(failing)
    IN [raised |-> IF failing = {} THEN "None" ELSE "AttributeError",
        dict |-> [r \in Range(regs) |->
                    UNION {{<<tech(k), p>> : p \in inter(k)} :
                           k \in {j \in 1..(stop - 1) : region(j) = r}}]]

\* variant of dropna that keeps the undefined entries
dropna_keeps(series) == series

\* resite.py:163  Series.dropna: the series without its NaN entries
dropna(series) == [tp \in {q \in DOMAIN series : series[q] # NaN} |-> series[tp]]

\* variant of Reindex that leaves the series on the index it had
Reindex_keeps(series, index) == series

\* resite.py:164-166  series[index]: the series restricted to the given index
Reindex(series, index) == [tp \in index |-> series[tp]]

\* a list that holds the elements of S once each (list(S), in ascending order)
RECURSIVE ListOf(_)
ListOf(S) ==
    IF S = {} THEN <<>>
    ELSE LET m == CHOOSE x \in S : \A y \in S : x <= y IN <<m>> \o ListOf(S \ {m})

\* variant of add_legacy_points that leaves the list as extended
add_legacy_points_extended(points, legacy_points) == ListOf(points) \o ListOf(legacy_points)

\* resite.py:135-139  the points of a technology with legacy data: the points
\* that passed the filters, extended by the points of its legacy capacity
\* (an empty list for a technology without any), then list(set(...))
add_legacy_points(points, legacy_points) ==
    ListOf(Range(ListOf(points) \o ListOf(legacy_points)))

\* resite.py:127-139  the TechPoints after the loop over the technologies with
\* legacy data: the point list of each is replaced by add_legacy_points, the
\* lists of the other technologies and of a run without use_ex_cap stay
legacy_added(points_dict, legacy_index, use_ex_cap) ==
    UNION {{tech} \X Range(IF use_ex_cap /\ tech \in LegacyTechs
                           THEN add_legacy_points(
                                    points_dict[tech],
                                    {tp[2] : tp \in {q \in legacy_index : q[1] = tech}})
                           ELSE ListOf(points_dict[tech])) :
           tech \in DOMAIN points_dict}

\* resite.py:92-187  Resite.build_input_data
build_input_data(obj, use_ex_cap, filtering_layers, order) ==
    LET regs == obj.regions
        techs == obj.technologies
        s1 == SetAttr(SetAttr(SetAttr(obj, "use_ex_cap", use_ex_cap),
                              "filtering_layers", filtering_layers),
                      "load_df", [r \in Range(regs) |-> world.load[r]])
        init_points == UNION {world.shapes[r] : r \in Range(regs)}
        filtered == filter_points(techs, init_points, filtering_layers)
        \* 127-139: legacy capacity at the initial points, added back
        legacy_index ==
            IF use_ex_cap
            THEN {tp \in (Range(techs) \cap LegacyTechs) \X init_points : world.legacy[tp] > 0}
            ELSE {}
        with_legacy == legacy_added(filtered.dict, legacy_index, use_ex_cap)
        \* 141-145
        dict0 == DictOf(with_legacy)
        s2 == SetAttr(SetAttr(s1, "tech_points_dict", dict0), "tech_points_tuples", with_legacy)
        \* 146-148
        existing0 == [tp \in with_legacy |-> IF tp \in legacy_index THEN world.legacy[tp] ELSE 0]
        \* 150-157
        cap_factor0 == [tp \in with_legacy |-> world.cap_factor[tp]]
        potential0 == get_capacity_potential(dict0, existing0)
        \* 159-166
        percentage0 == [tp \in with_legacy |-> Divide(existing0[tp], potential0[tp])]
        percentage == dropna(percentage0)
        index == DOMAIN percentage
        potential == Reindex(potential0, index)
        cap_factor == Reindex(cap_factor0, index)
        existing == Reindex(existing0, index)
        \* 168-176
        dict == DictOf(index)
        generation == [tp \in index |-> [t \in Timestamps |-> cap_factor[tp][t] * potential[tp]]]
        mapping == region_mapping(dict, regs, order)
        s3 == SetAttr(SetAttr(SetAttr(SetAttr(SetAttr(SetAttr(SetAttr(SetAttr(s2,
                  "existing_cap_ds", existing),
                  "cap_factor_df", cap_factor),
                  "cap_potential_ds", potential),
                  "existing_cap_percentage_ds", percentage),
                  "tech_points_tuples", index),
                  "tech_points_dict", dict),
                  "generation_potential_df", generation),
                  "region_tech_points_dict", mapping.dict)
    IN IF filtered.raised # "None" THEN Raise(s1, filtered.raised)
       \* 146: MultiIndex.from_tuples of an empty list raises TypeError
       ELSE IF with_legacy = {} THEN Raise(s2, "TypeError")
       ELSE [obj |-> s3, raised |-> mapping.raised]

\* resite.py:189-280  Resite.build_input_data_new.  The grid cells of every
\* technology are the initial points; potential and legacy capacity per cell
\* come from the same reference tables.
build_input_data_new(obj, use_ex_cap, order) ==
    LET regs == obj.regions
        techs == obj.technologies
        s1 == SetAttr(SetAttr(obj, "use_ex_cap", use_ex_cap),
                      "load_df", [r \in Range(regs) |-> world.load[r]])
        init_points == UNION {world.shapes[r] : r \in Range(regs)}
        cells == Range(techs) \X init_points
        \* 222-239
        potential0 == [tp \in cells |-> world.potential[tp]]
        existing0 == [tp \in cells |->
                        IF use_ex_cap /\ tp[1] \in LegacyTechs THEN world.legacy[tp] ELSE 0]
        \* 241-243
        potential1 == update_potential(existing0, potential0)
        \* 245-253
        index == {tp \in cells :
                    ~(potential1[tp] < PotentialCapThreshold \/ potential1[tp] = 0)}
        potential == [tp \in index |-> potential1[tp]]
        existing == [tp \in index |-> existing0[tp]]
        \* 255-269
        percentage == [tp \in index |-> Divide(existing[tp], potential[tp])]
        dict == DictOf(index)
        cap_factor == [tp \in index |-> world.cap_factor[tp]]
        generation == [tp \in index |-> [t \in Timestamps |-> cap_factor[tp][t] * potential[tp]]]
        mapping == region_mapping(dict, regs, order)
        s2 == SetAttr(SetAttr(SetAttr(SetAttr(SetAttr(SetAttr(SetAttr(SetAttr(s1,
                  "cap_potential_ds", potential),
                  "existing_cap_ds", existing),
                  "existing_cap_percentage_ds", percentage),
                  "tech_points_tuples", index),
                  "tech_points_dict", dict),
                  "cap_factor_df", cap_factor),
                  "generation_potential_df", generation),
                  "region_tech_points_dict", mapping.dict)
    IN [obj |-> s2, raised |-> mapping.raised]

\* ------------------------------------------------------ model backends
\* A built model is a record: the keys of its variables x[region, t] and
\* y[tech, point], their common bounds, its named constraint families, its
\* objective and the state of its solution.  In the units of this module
\*   generation_check[r, t]:  SUM coef[tp] * y[tp] >= load * x[r, t] * Scale
\*   potential_constraint[tp]:  y[tp] * den >= num * Scale   for the quotient <<num, den>>
\*   policy_target[k]:  SUM over k's x keys of x >= rhs
\*   capacity_target[tech]:  SUM coef[tp] * y[tp] >= rhs * Scale
\*   objective:  SUM y[tp] * objective.y[tp]  (minimize)  or  SUM of x over objective.x (maximize)

\* dict(zip(keys, values)): pairs up to the shorter of the two lists
ZipDict(keys, values) ==
    LET n == IF Len(keys) < Len(values) THEN Len(keys) ELSE Len(values)
    IN [k \in {keys[i] : i \in 1..n} |->
           values[CHOOSE i \in 1..n : keys[i] = k /\ \A j \in 1..n : keys[j] = k => j <= i]]

\* A model that was built and not solved: its variables carry no value
Unsolved == [status |-> "unsolved"]

\* The attributes of the Resite object a backend's build_model reads
\* (models/pyomo.py:31-50, models/gurobipy.py:31-49)
BuildAttrs ==
    {"load_df", "tech_points_tuples", "region_tech_points_dict", "generation_potential_df",
     "existing_cap_percentage_ds", "cap_potential_ds", "tech_points_dict"}

\* models/pyomo.py:41-58  generation_check: for every region and timestep,
\* sum over the region's TechPoints of generation_potential * y >= load * x
pyomo_generation_check(obj) ==
    [rt \in Range(obj.regions) \X Timestamps |->
        [coef |-> [tp \in obj.region_tech_points_dict[rt[1]] |->
                      obj.generation_potential_df[tp][rt[2]]],
         load |-> obj.load_df[rt[1]][rt[2]]]]

\* models/pyomo.py:60-64  potential_constraint: y >= existing_cap_percentage
pyomo_potential_constraint(obj) ==
    [tp \in obj.tech_points_tuples |-> obj.existing_cap_percentage_ds[tp]]

\* variant of pyomo_policy_target whose hourly form bounds the first timestep only
pyomo_policy_target_first(obj, formulation, deployment_vector) ==
    LET covered == ZipDict(obj.regions, deployment_vector)
    IN IF formulation = "meet_RES_targets_agg"
       THEN [r \in Range(obj.regions) |->
                [x |-> {r} \X Timestamps, rhs |-> covered[r] * NT]]
       ELSE [rt \in Range(obj.regions) \X {1} |->
                [x |-> {rt}, rhs |-> covered[rt[1]]]]

\* models/pyomo.py:66-73, 96-103  policy_target of the two meet_RES_targets formulations:
\* agg bounds the sum over time of x by target * len(timestamps), hourly bounds each x
pyomo_policy_target(obj, formulation, deployment_vector) ==
    LET covered == ZipDict(obj.regions, deployment_vector)
    IN IF formulation = "meet_RES_targets_agg"
       THEN [r \in Range(obj.regions) |->
                [x |-> {r} \X Timestamps, rhs |-> covered[r] * NT]]
       ELSE [rt \in Range(obj.regions) \X Timestamps |->
                [x |-> {rt}, rhs |-> covered[rt[1]]]]

\* models/pyomo.py:126-134  capacity_target of meet_demand_with_capacity: for every
\* configured technology, sum over its points of y * potential >= required capacity
pyomo_capacity_target(obj, deployment_vector) ==
    LET required == ZipDict(obj.technologies, deployment_vector)
    IN [tech \in Range(obj.technologies) |->
           [coef |-> [tp \in {tech} \X obj.tech_points_dict[tech] |-> obj.cap_potential_ds[tp]],
            rhs |-> required[tech]]]

\* variant of pyomo_objective that maximizes the covered load in every formulation
pyomo_objective_maximize(obj, formulation) ==
    [sense |-> "maximize", y |-> <<>>, x |-> Range(obj.regions) \X Timestamps]

\* models/pyomo.py:75-80, 105-110, 136-140  objective and sense per formulation
pyomo_objective(obj, formulation) ==
    IF formulation = "meet_demand_with_capacity"
    THEN [sense |-> "maximize", y |-> <<>>, x |-> Range(obj.regions) \X Timestamps]
    ELSE [sense |-> "minimize",
          y |-> [tp \in DOMAIN obj.cap_potential_ds |-> obj.cap_potential_ds[tp]],
          x |-> {}]

\* models/pyomo.py:11-147  build_model.  The call sets resite.instance only.
pyomo_build_model(obj, formulation, deployment_vector) ==
    IF formulation \notin AcceptedFormulations THEN Raise(obj, "AssertionError")
    ELSE IF ~(BuildAttrs \subseteq DOMAIN obj) THEN Raise(obj, "AttributeError")
    ELSE IF \E r \in Range(obj.regions) : obj.region_tech_points_dict[r] = {}
         THEN Raise(obj, "TypeError")
    ELSE IF \E r \in Range(obj.regions) :
                ~(obj.region_tech_points_dict[r] \subseteq
                    (DOMAIN obj.generation_potential_df \cap obj.tech_points_tuples))
         THEN Raise(obj, "KeyError")
    ELSE IF formulation = "meet_demand_with_capacity"
            /\ \E i \in DOMAIN obj.technologies :
                  obj.technologies[i] \notin DOMAIN obj.tech_points_dict
                  \/ i > Len(deployment_vector)
         THEN Raise(obj, "KeyError")
    ELSE IF formulation # "meet_demand_with_capacity"
            /\ Len(deployment_vector) < Len(obj.regions)
         THEN Raise(obj, "KeyError")
    ELSE LET model ==
                [kind |-> "pyomo",
                 x |-> Range(obj.regions) \X Timestamps,
                 y |-> obj.tech_points_tuples,
                 bounds |-> <<0, Scale>>,
                 generation_check |-> pyomo_generation_check(obj),
                 potential_constraint |-> pyomo_potential_constraint(obj),
                 policy_target |->
                     IF formulation = "meet_demand_with_capacity" THEN <<>>
                     ELSE pyomo_policy_target(obj, formulation, deployment_vector),
                 capacity_target |->
                     IF formulation = "meet_demand_with_capacity"
                     THEN pyomo_capacity_target(obj, deployment_vector) ELSE <<>>,
                 objective |-> pyomo_objective(obj, formulation),
                 solution |-> Unsolved]
         IN Ok(SetAttr(obj, "instance", model))

\* variant of gurobipy_generation_check in which every TechPoint of the index
\* generates for every region
gurobipy_generation_check_all(obj) ==
    [rt \in Range(obj.regions) \X Timestamps |->
        [coef |-> [tp \in obj.tech_points_tuples |->
                      obj.generation_potential_df[tp][rt[2]]],
         load |-> obj.load_df[rt[1]][rt[2]]]]

\* models/gurobipy.py:40-55  generation_check: for every region and timestep,
\* sum over the region's TechPoints of generation_potential * y >= load * x
gurobipy_generation_check(obj) ==
    [rt \in Range(obj.regions) \X Timestamps |->
        [coef |-> [tp \in obj.region_tech_points_dict[rt[1]] |->
                      obj.generation_potential_df[tp][rt[2]]],
         load |-> obj.load_df[rt[1]][rt[2]]]]

\* variant of gurobipy_potential_constraint with a floor of zero at every TechPoint
gurobipy_potential_constraint_zero(obj) ==
    [tp \in obj.tech_points_tuples |-> <<0, 1>>]

\* models/gurobipy.py:57-59  potential_constraint: y >= existing_cap_percentage
gurobipy_potential_constraint(obj) ==
    [tp \in obj.tech_points_tuples |-> obj.existing_cap_percentage_ds[tp]]

\* variant of gurobipy_policy_target whose targets are all zero
gurobipy_policy_target_zero(obj, formulation, deployment_vector) ==
    IF formulation = "meet_RES_targets_agg"
    THEN [r \in Range(obj.regions) |-> [x |-> {r} \X Timestamps, rhs |-> 0]]
    ELSE [rt \in Range(obj.regions) \X Timestamps |-> [x |-> {rt}, rhs |-> 0]]

\* models/gurobipy.py:61-65, 82-85  policy_target of the two meet_RES_targets formulations:
\* agg bounds the sum over time of x by target * len(timestamps), hourly bounds each x
gurobipy_policy_target(obj, formulation, deployment_vector) ==
    LET covered == ZipDict(obj.regions, deployment_vector)
    IN IF formulation = "meet_RES_targets_agg"
       THEN [r \in Range(obj.regions) |->
                [x |-> {r} \X Timestamps, rhs |-> covered[r] * NT]]
       ELSE [rt \in Range(obj.regions) \X Timestamps |->
                [x |-> {rt}, rhs |-> covered[rt[1]]]]

\* models/gurobipy.py:102-107  capacity_target of meet_demand_with_capacity: for every
\* configured technology, sum over its points of y * potential >= required capacity
gurobipy_capacity_target(obj, deployment_vector) ==
    LET required == ZipDict(obj.technologies, deployment_vector)
    IN [tech \in Range(obj.technologies) |->
           [coef |-> [tp \in {tech} \X obj.tech_points_dict[tech] |-> obj.cap_potential_ds[tp]],
            rhs |-> required[tech]]]

\* variant of gurobipy_objective that minimizes the deployed capacity in every formulation
gurobipy_objective_minimize(obj, formulation) ==
    [sense |-> "minimize",
     y |-> [tp \in DOMAIN obj.cap_potential_ds |-> obj.cap_potential_ds[tp]],
     x |-> {}]

\* models/gurobipy.py:67-70, 87-90, 109-111  objective and sense per formulation
gurobipy_objective(obj, formulation) ==
    IF formulation = "meet_demand_with_capacity"
    THEN [sense |-> "maximize", y |-> <<>>, x |-> Range(obj.regions) \X Timestamps]
    ELSE [sense |-> "minimize",
          y |-> [tp \in DOMAIN obj.cap_potential_ds |-> obj.cap_potential_ds[tp]],
          x |-> {}]

\* models/gurobipy.py:11-118  build_model.  The call sets resite.instance, resite.y
\* and resite.obj, the latter two being the variables and objective of that model.
gurobipy_build_model(obj, formulation, deployment_vector) ==
    IF formulation \notin AcceptedFormulations THEN Raise(obj, "AssertionError")
    ELSE IF ~(BuildAttrs \subseteq DOMAIN obj) THEN Raise(obj, "AttributeError")
    ELSE IF \E r \in Range(obj.regions) : obj.region_tech_points_dict[r] = {}
         THEN Raise(obj, "TypeError")
    ELSE IF \E r \in Range(obj.regions) :
                ~(obj.region_tech_points_dict[r] \subseteq
                    (DOMAIN obj.generation_potential_df \cap obj.tech_points_tuples))
         THEN Raise(obj, "KeyError")
    ELSE IF formulation = "meet_demand_with_capacity"
            /\ \E i \in DOMAIN obj.technologies :
                  obj.technologies[i] \notin DOMAIN obj.tech_points_dict
                  \/ i > Len(deployment_vector)
         THEN Raise(obj, "KeyError")
    ELSE IF formulation # "meet_demand_with_capacity"
            /\ Len(deployment_vector) < Len(obj.regions)
         THEN Raise(obj, "KeyError")
    ELSE LET model ==
                [kind |-> "gurobipy",
                 x |-> Range(obj.regions) \X Timestamps,
                 y |-> obj.tech_points_tuples,
                 bounds |-> <<0, Scale>>,
                 generation_check |-> gurobipy_generation_check(obj),
                 potential_constraint |-> gurobipy_potential_constraint(obj),
                 policy_target |->
                     IF formulation = "meet_demand_with_capacity" THEN <<>>
                     ELSE gurobipy_policy_target(obj, formulation, deployment_vector),
                 capacity_target |->
                     IF formulation = "meet_demand_with_capacity"
                     THEN gurobipy_capacity_target(obj, deployment_vector) ELSE <<>>,
                 objective |-> gurobipy_objective(obj, formulation),
                 solution |-> Unsolved]
         IN Ok(SetAttr(SetAttr(SetAttr(obj, "instance", model), "y", model), "obj", model))

\* ------------------------------------------------------------- solver
\* The external LP solver, over the grid of fractions.  x[r, t] occurs only as
\* the right-hand side of generation_check[r, t], in policy_target and in the
\* maximised objective, so for given y the largest x the generation allows
\* decides feasibility and the objective.
RECURSIVE SumOver(_, _)
SumOver(f, S) ==
    IF S = {} THEN 0
    ELSE LET e == CHOOSE e \in S : TRUE IN f[e] + SumOver(f, S \ {e})

Max(S) == CHOOSE x \in S : \A y \in S : x >= y

Levels(model) == model.bounds[1]..model.bounds[2]

XMax(model, rt, yv) ==
    LET gc == model.generation_check[rt]
        generation == SumOver([tp \in DOMAIN gc.coef |-> gc.coef[tp] * yv[tp]], DOMAIN gc.coef)
    IN Max({xv \in Levels(model) : gc.load * xv * Scale <= generation})

FeasibleY(model, yv) ==
    /\ \A tp \in DOMAIN model.potential_constraint :
          yv[tp] * model.potential_constraint[tp][2] >= model.potential_constraint[tp][1] * Scale
    /\ \A tech \in DOMAIN model.capacity_target :
          LET ct == model.capacity_target[tech]
          IN SumOver([tp \in DOMAIN ct.coef |-> ct.coef[tp] * yv[tp]], DOMAIN ct.coef)
                >= ct.rhs * Scale
    /\ \A k \in DOMAIN model.policy_target :
          LET pt == model.policy_target[k]
          IN SumOver([rt \in pt.x |-> XMax(model, rt, yv)], pt.x) >= pt.rhs

ObjectiveValue(model, yv) ==
    IF model.objective.sense = "minimize"
    THEN SumOver([tp \in DOMAIN model.objective.y |-> model.objective.y[tp] * yv[tp]],
                 DOMAIN model.objective.y)
    ELSE SumOver([rt \in model.objective.x |-> XMax(model, rt, yv)], model.objective.x)

\* The outcomes of a solve: any optimal point, or the infeasible status.
Solutions(model) ==
    LET feasible == {yv \in [model.y -> Levels(model)] : FeasibleY(model, yv)}
        value == [yv \in feasible |-> ObjectiveValue(model, yv)]
        best == IF model.objective.sense = "minimize"
                THEN Min({value[yv] : yv \in feasible})
                ELSE Max({value[yv] : yv \in feasible})
    IN IF feasible = {} THEN {[status |-> "infeasible"]}
       ELSE {[status |-> "optimal", y |-> yv, objective |-> best] :
                yv \in {v \in feasible : value[v] = best}}

\* models/pyomo.py:150-166  solve_model(resite, solver, solver_options).  The
\* arguments of opt.solve read resite.output_folder before the solver runs.
pyomo_solve_model(obj, outcome) ==
    IF ~Has(obj, "output_folder") THEN Raise(obj, "AttributeError")
    ELSE IF obj.instance.kind # "pyomo" THEN Raise(obj, "ValueError")
    ELSE Ok(SetAttr(obj, "instance", [obj.instance EXCEPT !.solution = outcome]))

\* variant of gurobipy_solve_model that also stores the objective on the orchestrator
gurobipy_solve_model_stores(obj, outcome) ==
    IF obj.instance.kind # "gurobipy" THEN Raise(obj, "AttributeError")
    ELSE LET solved == [obj.instance EXCEPT !.solution = outcome]
         IN Ok(SetAttr(SetAttr(SetAttr(SetAttr(obj, "instance", solved), "y", solved),
                               "obj", solved), "objective", outcome))

\* models/gurobipy.py:121-133  solve_model(resite, solver, solver_options):
\* resite.instance.optimize(); only a gurobipy Model has that method.  resite.y
\* and resite.obj belong to the model that was optimized.
gurobipy_solve_model(obj, outcome) ==
    IF obj.instance.kind # "gurobipy" THEN Raise(obj, "AttributeError")
    ELSE LET solved == [obj.instance EXCEPT !.solution = outcome]
         IN Ok(SetAttr(SetAttr(SetAttr(obj, "instance", solved), "y", solved), "obj", solved))

\* variant of SelectedPoints that lists the points whose solved y is not negative
SelectedPoints_nonneg(tuples, y_value, tech) ==
    {tp[2] : tp \in {q \in tuples : q[1] = tech /\ y_value[q] >= 0}}

\* models/pyomo.py:190-191, models/gurobipy.py:157-158  the selected points of a
\* technology: those whose solved y is strictly positive
SelectedPoints(tuples, y_value, tech) ==
    {tp[2] : tp \in {q \in tuples : q[1] = tech /\ y_value[q] > 0}}

\* variant of RemoveEmpty that keeps the technologies without a selected point
RemoveEmpty_keeps(dict) == dict

\* models/pyomo.py:193-194, models/gurobipy.py:160-161  technologies without a
\* selected point are removed from the mapping
RemoveEmpty(dict) == [k \in {t \in DOMAIN dict : dict[t] # {}} |-> dict[k]]

\* variant of OptimalCapacity that returns the deployed fraction itself
OptimalCapacity_fraction(y_value, potential) == y_value

\* models/pyomo.py:189, models/gurobipy.py:156  optimal capacity of a TechPoint,
\* in units of 1/Scale of a capacity unit
OptimalCapacity(y_value, potential) == y_value * potential

\* models/pyomo.py:169-199  retrieve_solution: (objective, selected points, optimal capacity)
pyomo_retrieve_solution(obj) ==
    IF ~Has(obj, "tech_points_tuples") THEN [raised |-> "AttributeError"]
    ELSE IF obj.tech_points_tuples = {} THEN [raised |-> "TypeError"]
    ELSE IF obj.instance.kind # "pyomo" THEN [raised |-> "AttributeError"]
    ELSE IF ~(obj.tech_points_tuples \subseteq obj.instance.y) THEN [raised |-> "KeyError"]
    ELSE IF ~Has(obj, "cap_potential_ds") THEN [raised |-> "AttributeError"]
    ELSE IF ~(obj.tech_points_tuples \subseteq DOMAIN obj.cap_potential_ds)
         THEN [raised |-> "KeyError"]
    \* the value of a variable that was never solved is None: None * float
    ELSE IF obj.instance.solution.status # "optimal" THEN [raised |-> "TypeError"]
    ELSE LET y_value == obj.instance.solution.y
         IN [raised |-> "None",
             objective |-> obj.instance.solution.objective,
             selected_tech_points_dict |->
                 RemoveEmpty([tech \in Range(obj.technologies) |->
                                 SelectedPoints(obj.tech_points_tuples, y_value, tech)]),
             optimal_capacity_ds |->
                 [tp \in obj.tech_points_tuples |->
                     OptimalCapacity(y_value[tp], obj.cap_potential_ds[tp])]]

\* models/gurobipy.py:136-166  retrieve_solution, reading resite.y and resite.obj
gurobipy_retrieve_solution(obj) ==
    IF ~Has(obj, "tech_points_tuples") THEN [raised |-> "AttributeError"]
    ELSE IF obj.tech_points_tuples = {} THEN [raised |-> "TypeError"]
    ELSE IF ~Has(obj, "y") THEN [raised |-> "AttributeError"]
    ELSE IF ~(obj.tech_points_tuples \subseteq obj.y.y) THEN [raised |-> "KeyError"]
    \* attribute X of a variable without a solution cannot be retrieved
    ELSE IF obj.y.solution.status # "optimal" THEN [raised |-> "AttributeError"]
    ELSE IF ~Has(obj, "cap_potential_ds") THEN [raised |-> "AttributeError"]
    ELSE IF ~(obj.tech_points_tuples \subseteq DOMAIN obj.cap_potential_ds)
         THEN [raised |-> "KeyError"]
    ELSE LET y_value == obj.y.solution.y
         IN [raised |-> "None",
             objective |-> obj.obj.solution.objective,
             selected_tech_points_dict |->
                 RemoveEmpty([tech \in Range(obj.technologies) |->
                                 SelectedPoints(obj.tech_points_tuples, y_value, tech)]),
             optimal_capacity_ds |->
                 [tp \in obj.tech_points_tuples |->
                     OptimalCapacity(y_value[tp], obj.cap_potential_ds[tp])]]

\* ------------------------------------------- docplex backend (not in src)
\* src/resite/models/docplex.py is imported by resite.py:328, 340, 360 and is not
\* part of the sources; it is modelled from sections 4.3 and 4.4 of the
\* specification: same variables, shared constraints and formulations.
docplex_build_model(obj, formulation, deployment_vector) ==
    IF formulation \notin AcceptedFormulations THEN Raise(obj, "AssertionError")
    \* section 7: a parameter-vector length mismatch is a configuration error
    ELSE IF formulation = "meet_demand_with_capacity"
            /\ Len(deployment_vector) # Len(obj.technologies)
         THEN Raise(obj, "ValueError")
    ELSE IF formulation # "meet_demand_with_capacity"
            /\ Len(deployment_vector) # Len(obj.regions)
         THEN Raise(obj, "ValueError")
    ELSE IF ~(BuildAttrs \subseteq DOMAIN obj) THEN Raise(obj, "AttributeError")
    ELSE IF \E tech \in Range(obj.technologies) : tech \notin DOMAIN obj.tech_points_dict
         THEN Raise(obj, "KeyError")
    ELSE LET regs == Range(obj.regions)
             model ==
                [kind |-> "docplex",
                 x |-> regs \X Timestamps,
                 y |-> obj.tech_points_tuples,
                 bounds |-> <<0, Scale>>,
                 generation_check |->
                     [rt \in regs \X Timestamps |->
                         [coef |-> [tp \in obj.region_tech_points_dict[rt[1]] |->
                                       obj.cap_factor_df[tp][rt[2]] * obj.cap_potential_ds[tp]],
                          load |-> obj.load_df[rt[1]][rt[2]]]],
                 potential_constraint |->
                     [tp \in obj.tech_points_tuples |-> obj.existing_cap_percentage_ds[tp]],
                 policy_target |->
                     IF formulation = "meet_RES_targets_agg"
                     THEN [r \in regs |->
                              [x |-> {r} \X Timestamps,
                               rhs |-> ZipDict(obj.regions, deployment_vector)[r] * NT]]
                     ELSE IF formulation = "meet_RES_targets_hourly"
                     THEN [rt \in regs \X Timestamps |->
                              [x |-> {rt},
                               rhs |-> ZipDict(obj.regions, deployment_vector)[rt[1]]]]
                     ELSE <<>>,
                 capacity_target |->
                     IF formulation = "meet_demand_with_capacity"
                     THEN [tech \in Range(obj.technologies) |->
                              [coef |-> [tp \in {tech} \X obj.tech_points_dict[tech] |->
                                            obj.cap_potential_ds[tp]],
                               rhs |-> ZipDict(obj.technologies, deployment_vector)[tech]]]
                     ELSE <<>>,
                 objective |->
                     IF formulation = "meet_demand_with_capacity"
                     THEN [sense |-> "maximize", y |-> <<>>, x |-> regs \X Timestamps]
                     ELSE [sense |-> "minimize",
                           y |-> [tp \in obj.tech_points_tuples |-> obj.cap_potential_ds[tp]],
                           x |-> {}],
                 solution |-> Unsolved]
         IN Ok(SetAttr(obj, "instance", model))

docplex_solve_model(obj, outcome) ==
    IF obj.instance.kind # "docplex" THEN Raise(obj, "AttributeError")
    ELSE Ok(SetAttr(obj, "instance", [obj.instance EXCEPT !.solution = outcome]))

docplex_retrieve_solution(obj) ==
    IF ~({"tech_points_tuples", "cap_potential_ds"} \subseteq DOMAIN obj)
    THEN [raised |-> "AttributeError"]
    ELSE IF obj.instance.kind # "docplex" THEN [raised |-> "AttributeError"]
    ELSE IF obj.instance.solution.status # "optimal" THEN [raised |-> "SolveStatusError"]
    ELSE IF ~(obj.tech_points_tuples \subseteq
                (obj.instance.y \cap DOMAIN obj.cap_potential_ds))
         THEN [raised |-> "KeyError"]
    ELSE LET y_value == obj.instance.solution.y
         IN [raised |-> "None",
             objective |-> obj.instance.solution.objective,
             selected_tech_points_dict |->
                 LET all == [tech \in Range(obj.technologies) |->
                               {tp[2] : tp \in {q \in obj.tech_points_tuples :
                                                   q[1] = tech /\ y_value[q] > 0}}]
                 IN [tech \in {t \in DOMAIN all : all[t] # {}} |-> all[tech]],
             optimal_capacity_ds |->
                 [tp \in obj.tech_points_tuples |-> y_value[tp] * obj.cap_potential_ds[tp]]]

\* variant of Resite_build_model without the one-region check of meet_demand_with_capacity
Resite_build_model_any_regions(obj, modelling_arg, formulation_arg, params) ==
    IF formulation_arg \in RegionScopedFormulations /\ Len(params) # Len(obj.regions)
    THEN Raise(obj, "ValueError")
    ELSE IF modelling_arg \notin AcceptedModelling
    THEN Raise(obj, "AssertionError")
    ELSE LET s1 == SetAttr(SetAttr(SetAttr(obj, "modelling", modelling_arg),
                                   "formulation", formulation_arg),
                           "formulation_params", params)
         IN IF modelling_arg = "docplex"
            THEN docplex_build_model(s1, formulation_arg, params)
            ELSE Raise(s1, "TypeError")

\* variant of Resite_build_model that records its arguments before it checks the
\* modelling language
Resite_build_model_records_first(obj, modelling_arg, formulation_arg, params) ==
    LET s1 == SetAttr(SetAttr(SetAttr(obj, "modelling", modelling_arg),
                              "formulation", formulation_arg),
                      "formulation_params", params)
    IN IF formulation_arg = "meet_demand_with_capacity" /\ Len(obj.regions) # 1
       THEN Raise(obj, "ValueError")
       ELSE IF formulation_arg \in RegionScopedFormulations /\ Len(params) # Len(obj.regions)
       THEN Raise(obj, "ValueError")
       ELSE IF modelling_arg \notin AcceptedModelling
       THEN Raise(s1, "AssertionError")
       ELSE IF modelling_arg = "docplex"
       THEN docplex_build_model(s1, formulation_arg, params)
       ELSE Raise(s1, "TypeError")

\* variant of Resite_retrieve_sites_data that narrows the input series to the
\* selected sites
Resite_retrieve_sites_data_narrows(obj) ==
    IF ~Has(obj, "selected_tech_points_dict") THEN Raise(obj, "AttributeError")
    ELSE LET selected == Tuples(obj.selected_tech_points_dict)
         IN IF ~Has(obj, "existing_cap_ds") THEN Raise(obj, "AttributeError")
            ELSE IF ~(selected \subseteq DOMAIN obj.existing_cap_ds) THEN Raise(obj, "KeyError")
            ELSE IF ~(selected \subseteq DOMAIN obj.cap_potential_ds) THEN Raise(obj, "KeyError")
            ELSE Ok(SetAttr(SetAttr(SetAttr(obj,
                     "existing_cap_ds", [tp \in selected |-> obj.existing_cap_ds[tp]]),
                     "cap_potential_ds", [tp \in selected |-> obj.cap_potential_ds[tp]]),
                     "cap_factor_df", [tp \in selected |-> obj.cap_factor_df[tp]]))

\* ---------------------------------------------- orchestrator: model stages
\* resite.py:282-332  Resite.build_model (write_lp left at its default False).
\* The pyomo and gurobipy backends are called with five positional arguments
\* (326, 332) and accept at most four (models/pyomo.py:11, models/gurobipy.py:11):
\* the call raises TypeError before the backend's body runs.
Resite_build_model(obj, modelling_arg, formulation_arg, params) ==
    IF formulation_arg = "meet_demand_with_capacity" /\ Len(obj.regions) # 1
    THEN Raise(obj, "ValueError")
    ELSE IF formulation_arg \in RegionScopedFormulations /\ Len(params) # Len(obj.regions)
    THEN Raise(obj, "ValueError")
    ELSE IF modelling_arg \notin AcceptedModelling
    THEN Raise(obj, "AssertionError")
    ELSE LET s1 == SetAttr(SetAttr(SetAttr(obj, "modelling", modelling_arg),
                                   "formulation", formulation_arg),
                           "formulation_params", params)
         IN IF modelling_arg = "pyomo" THEN Raise(s1, "TypeError")
            ELSE IF modelling_arg = "docplex"
                 THEN docplex_build_model(s1, formulation_arg, params)
                 ELSE Raise(s1, "TypeError")

\* resite.py:334-344  Resite.solve_model.  The pyomo and gurobipy backends are
\* called with one argument (338, 344) and require three
\* (models/pyomo.py:150, models/gurobipy.py:121): TypeError.
Resite_solve_model(obj, outcome) ==
    IF ~Has(obj, "modelling") THEN Raise(obj, "AttributeError")
    ELSE IF obj.modelling = "pyomo" THEN Raise(obj, "TypeError")
    ELSE IF obj.modelling = "docplex" THEN docplex_solve_model(obj, outcome)
    ELSE Raise(obj, "TypeError")

\* resite.py:346-366  Resite.retrieve_solution
Resite_retrieve_solution(obj) ==
    IF ~Has(obj, "modelling") THEN Raise(obj, "AttributeError")
    ELSE LET r == IF obj.modelling = "pyomo" THEN pyomo_retrieve_solution(obj)
                  ELSE IF obj.modelling = "docplex" THEN docplex_retrieve_solution(obj)
                  ELSE gurobipy_retrieve_solution(obj)
         IN IF r.raised # "None" THEN Raise(obj, r.raised)
            ELSE Ok(SetAttr(SetAttr(SetAttr(obj, "objective", r.objective),
                                    "selected_tech_points_dict", r.selected_tech_points_dict),
                            "optimal_cap_ds", r.optimal_capacity_ds))

\* resite.py:368-393  Resite.retrieve_sites_data
Resite_retrieve_sites_data(obj) ==
    IF ~Has(obj, "selected_tech_points_dict") THEN Raise(obj, "AttributeError")
    ELSE LET selected == Tuples(obj.selected_tech_points_dict)
         IN IF ~Has(obj, "existing_cap_ds") THEN Raise(obj, "AttributeError")
            ELSE IF ~(selected \subseteq DOMAIN obj.existing_cap_ds) THEN Raise(obj, "KeyError")
            ELSE IF ~(selected \subseteq DOMAIN obj.cap_potential_ds)
                 THEN Raise(SetAttr(obj, "selected_existing_cap_ds",
                                    [tp \in selected |-> obj.existing_cap_ds[tp]]), "KeyError")
            ELSE Ok(SetAttr(SetAttr(SetAttr(obj,
                     "selected_existing_cap_ds", [tp \in selected |-> obj.existing_cap_ds[tp]]),
                     "selected_cap_potential_ds", [tp \in selected |-> obj.cap_potential_ds[tp]]),
                     "selected_cap_factor_df", [tp \in selected |-> obj.cap_factor_df[tp]]))

\* resite.py:78-90  init_output_folder: the folder save writes into, or the
\* AssertionError of a given name that does not end with "/"
init_output_folder(dir_name) ==
    IF dir_name = "None" THEN [raised |-> "None", folder |-> "output/resite/run_start/"]
    ELSE IF dir_name \notin {"out/"} THEN [raised |-> "AssertionError", folder |-> dir_name]
    ELSE [raised |-> "None", folder |-> dir_name]

\* resite.py:401-409  the attributes read for config.yaml
SaveParams ==
    {"filtering_layers", "regions", "technologies", "use_ex_cap", "modelling", "formulation",
     "formulation_params"}

\* resite.py:416-436  the attributes put in the list pickled to resite_model.p
\* (tech_points_dict is listed twice)
SaveOutput ==
    {"formulation", "regions", "modelling", "use_ex_cap", "technologies", "formulation_params",
     "tech_points_dict", "cap_potential_ds", "cap_factor_df", "existing_cap_ds",
     "optimal_cap_ds", "selected_tech_points_dict", "generation_potential_df", "load_df",
     "selected_cap_potential_ds", "selected_cap_factor_df"}

\* resite.py:395-438  Resite.save: the files of the output folder after the
\* call.  config.yaml and tech_config.yaml are written before the list of
\* attributes is built; timestamps, spatial_res and tech_config are always set.
Resite_save(obj, dir_name) ==
    LET out == init_output_folder(dir_name)
    IN IF out.raised # "None"
       THEN [obj |-> obj, raised |-> out.raised, folder |-> out.folder, files |-> <<>>]
       ELSE IF ~(SaveParams \subseteq DOMAIN obj)
            THEN [obj |-> obj, raised |-> "AttributeError", folder |-> out.folder,
                  files |-> <<>>]
       ELSE LET yaml == [config_yaml |->
                            [a \in SaveParams \cup {"timeslice"} |->
                                IF a = "timeslice" THEN <<1, NT>> ELSE obj[a]],
                         tech_config_yaml |-> "tech_config"]
            IN IF ~(SaveOutput \subseteq DOMAIN obj)
               THEN [obj |-> obj, raised |-> "AttributeError", folder |-> out.folder,
                     files |-> yaml]
               ELSE [obj |-> obj, raised |-> "None", folder |-> out.folder,
                     files |-> [config_yaml |-> yaml.config_yaml,
                                tech_config_yaml |-> yaml.tech_config_yaml,
                                resite_model_p |->
                                    [a \in SaveOutput \cup {"timestamps"} |->
                                        IF a = "timestamps" THEN Timestamps ELSE obj[a]]]]

\* ------------------------------------------------- datasets and inputs
\* The reference datasets of the pipeline specification: every region's shape
\* covers every point; wind_onshore has potential at point 1 only, pv_utility a
\* unit of potential at point 1 and at the last point, where the resource-quality
\* layer excludes it; pv_utility generates at the first timestep only; legacy
\* capacity exists for wind_onshore at point 1 and, above the modelled
\* potential, for pv_utility at the last point.  The load of the second region
\* is above the generation of all points together at every timestep, the load
\* of the other regions is not.
PipelineWorld ==
    [shapes |-> [r \in Range(RegionNames) |-> Points],
     legacy |-> [tp \in AllTechPoints |->
                    IF tp = <<"wind_onshore", 1>> THEN 1
                    ELSE IF tp = <<"pv_utility", NPoints>> THEN MaxCap ELSE 0],
     potential |-> [tp \in AllTechPoints |->
                    IF tp[1] = "pv_utility" THEN (IF tp[2] \in {1, NPoints} THEN 1 ELSE 0)
                    ELSE IF tp[2] = 1 THEN MaxCap ELSE 0],
     cap_factor |-> [tp \in AllTechPoints |-> [t \in Timestamps |->
                    IF tp[1] = "pv_utility" /\ t > 1 THEN 0 ELSE Scale]],
     load |-> [r \in Range(RegionNames) |-> [t \in Timestamps |->
                    IF r = RegionNames[2] THEN MaxCap + 2 ELSE MaxCap]],
     mask |-> [layer \in KnownLayers |-> [tech \in Range(TechNames) |->
                    IF layer = "resource_quality" /\ tech = "pv_utility"
                    THEN {NPoints} ELSE {}]]]

\* filtering_layers of the run: layer name -> enabled, in configuration order
DefaultLayers == <<<<"resource_quality", TRUE>>, <<"orography", TRUE>>, <<"bathymetry", TRUE>>>>

RegionLists == {SubSeq(RegionNames, 1, n) : n \in 1..MaxRegions}

ModellingNames == AcceptedModelling \cup {"cvxpy"}
FormulationNames == AcceptedFormulations \cup {"maximize_generation", "minimize_cost"}

\* parameter vectors: the same value for every entry, lengths 1..MaxParams
ParamVectors == {[i \in 1..n |-> v] : n \in 1..MaxParams, v \in {0, Scale}}

\* iteration orders of a dict keyed by technology
TechOrders == {<<TechNames[1], TechNames[2]>>, <<TechNames[2], TechNames[1]>>}

Configs ==
    [use_ex_cap : BOOLEAN, filtering_layers : {DefaultLayers},
     modelling : ModellingNames, formulation : FormulationNames,
     formulation_params : ParamVectors]

\* ---------------------------------------------------------------- actions
Call(name, result) ==
    /\ resite' = result.obj
    /\ raised' = result.raised
    /\ op' = name
    /\ UNCHANGED <<world, config>>

BuildInputData ==
    \E order \in TechOrders :
        Call("build_input_data",
             build_input_data(resite, config.use_ex_cap, config.filtering_layers, order))

BuildInputDataNew ==
    \E order \in TechOrders :
        Call("build_input_data_new", build_input_data_new(resite, config.use_ex_cap, order))

BuildModel ==
    Call("build_model",
         Resite_build_model(resite, config.modelling, config.formulation,
                            config.formulation_params))

SolveModel ==
    \E outcome \in (IF resite.instance.kind = "docplex" THEN Solutions(resite.instance)
                    ELSE {Unsolved}) :
        Call("solve_model", Resite_solve_model(resite, outcome))

RetrieveSolution == Call("retrieve_solution", Resite_retrieve_solution(resite))

RetrieveSitesData == Call("retrieve_sites_data", Resite_retrieve_sites_data(resite))

\* the backend functions called by the client itself, with the run's formulation
PyomoBuildModel ==
    Call("pyomo.build_model",
         pyomo_build_model(resite, config.formulation, config.formulation_params))

GurobipyBuildModel ==
    Call("gurobipy.build_model",
         gurobipy_build_model(resite, config.formulation, config.formulation_params))

PyomoSolveModel ==
    \E outcome \in (IF resite.instance.kind = "pyomo" /\ Has(resite, "output_folder")
                    THEN Solutions(resite.instance) ELSE {Unsolved}) :
        Call("pyomo.solve_model", pyomo_solve_model(resite, outcome))

GurobipySolveModel ==
    \E outcome \in (IF resite.instance.kind = "gurobipy" THEN Solutions(resite.instance)
                    ELSE {Unsolved}) :
        Call("gurobipy.solve_model", gurobipy_solve_model(resite, outcome))

Init ==
    /\ world = PipelineWorld
    /\ config \in Configs
    /\ \E regs \in RegionLists : resite = Resite_init(regs, TechNames)
    /\ op = "__init__"
    /\ raised = "None"

Next ==
    \/ BuildInputData
    \/ BuildModel
    \/ SolveModel
    \/ RetrieveSolution
    \/ RetrieveSitesData
    \/ PyomoBuildModel
    \/ GurobipyBuildModel
    \/ PyomoSolveModel
    \/ GurobipySolveModel

Spec == Init /\ [][Next]_vars

\* ------------------------------------- specification of input building
\* Both input-building pipelines over a family of reference datasets: the
\* regions either all cover every point or partition the points (point p lies
\* in region ((p - 1) % n) + 1); legacy capacity and modelled potential vary
\* at the first and the last point for wind_onshore and are a unit of
\* potential and no legacy capacity elsewhere; the resource-quality layer
\* excludes no point, the first or the last one for wind_onshore.
DataWorlds ==
    {[shapes |-> [r \in Range(RegionNames) |->
                    IF overlap THEN Points
                    ELSE {p \in Points :
                            RegionNames[((p - 1) % MaxRegions) + 1] = r}],
      legacy |-> [tp \in AllTechPoints |->
                    IF tp[1] = "wind_onshore" /\ tp[2] \in {1, NPoints}
                    THEN leg[tp[2]] ELSE 0],
      potential |-> [tp \in AllTechPoints |->
                    IF tp[1] = "wind_onshore" /\ tp[2] \in {1, NPoints}
                    THEN pot[tp[2]] ELSE 1],
      cap_factor |-> [tp \in AllTechPoints |-> [t \in Timestamps |-> Scale]],
      load |-> [r \in Range(RegionNames) |-> [t \in Timestamps |-> MaxCap]],
      mask |-> [layer \in KnownLayers |-> [tech \in Range(TechNames) |->
                    IF layer = "resource_quality" /\ tech = "wind_onshore"
                    THEN removed ELSE {}]]] :
        overlap \in BOOLEAN, leg \in [{1, NPoints} -> 0..MaxCap],
        pot \in [{1, NPoints} -> 0..MaxCap], removed \in {{}, {1}, {NPoints}}}

DataConfigs ==
    [use_ex_cap : BOOLEAN, filtering_layers : {DefaultLayers},
     modelling : {"pyomo"}, formulation : {"meet_RES_targets_agg"},
     formulation_params : {<<Scale>>}]

InitData ==
    /\ world \in DataWorlds
    /\ config \in DataConfigs
    /\ resite = Resite_init(SubSeq(RegionNames, 1, MaxRegions), TechNames)
    /\ op = "__init__"
    /\ raised = "None"

NextData ==
    \/ BuildInputData
    \/ BuildInputDataNew

SpecData == InitData /\ [][NextData]_vars

\* ------------------------------------------------ the point filter alone
\* filter_points as the call of resite.py:123-124 makes it, over technology
\* lists of every deployment class, every initial point list and every
\* filtering_layers mapping of up to MaxLayers keys, "slope" being a key that
\* filter_points_by_layer does not know.
FilterTechLists ==
    {<<"wind_onshore">>, <<"wind_offshore">>, <<"wind_floating">>, <<"pv_utility">>,
     <<"wind_onshore", "wind_offshore">>}

FilterTechs == UNION {Range(techs) : techs \in FilterTechLists}

LayerNames == {"resource_quality", "orography", "bathymetry", "protected_areas", "slope"}

\* a dict of layer name -> flag, as the sequence of its items
LayerConfigs ==
    {layers \in UNION {[1..n -> LayerNames \X BOOLEAN] : n \in 0..MaxLayers} :
        \A i, j \in DOMAIN layers : layers[i][1] = layers[j][1] => i = j}

\* the layer datasets: resource_quality excludes point 1 for the wind
\* technologies and the last point for pv_utility, orography and bathymetry
\* exclude the last point
FilterWorld(init_points) ==
    [mask |-> [layer \in KnownLayers |-> [tech \in FilterTechs |->
                  IF layer = "resource_quality"
                  THEN (IF tech = "pv_utility" THEN {NPoints} ELSE {1})
                  ELSE IF layer \in {"orography", "bathymetry"} THEN {NPoints} ELSE {}]],
     init_points |-> init_points]

\* resite.py:123-124  self.tech_points_dict = filter_points(self.technologies, ...)
FilterPoints ==
    LET r == filter_points(resite.technologies, world.init_points, config.filtering_layers)
    IN /\ resite' = IF r.raised = "None" THEN SetAttr(resite, "tech_points_dict", r.dict)
                     ELSE resite
       /\ world' = [world EXCEPT !.init_points = r.init_points]
       /\ raised' = r.raised
       /\ op' = "filter_points"
       /\ UNCHANGED config

\* the caller passes the points returned for one technology through
\* filter_points again, with the same filtering_layers
FilterReturned ==
    /\ raised = "None" /\ Has(resite, "tech_points_dict")
    /\ \E tech \in DOMAIN resite.tech_points_dict :
          LET r == filter_points(<<tech>>, resite.tech_points_dict[tech],
                                 config.filtering_layers)
          IN /\ resite' = IF r.raised = "None"
                           THEN SetAttr(SetAttr(resite, "technologies", <<tech>>),
                                        "tech_points_dict", r.dict)
                           ELSE resite
             /\ world' = [world EXCEPT !.init_points = r.init_points]
             /\ raised' = r.raised
             /\ op' = "filter_points_again"
             /\ UNCHANGED config

InitFilter ==
    /\ \E init_points \in SUBSET Points : world = FilterWorld(init_points)
    /\ \E layers \in LayerConfigs :
          config = [use_ex_cap |-> FALSE, filtering_layers |-> layers]
    /\ \E techs \in FilterTechLists : resite = Resite_init(<<RegionNames[1]>>, techs)
    /\ op = "__init__"
    /\ raised = "None"

NextFilter ==
    \/ FilterPoints
    \/ FilterReturned

SpecFilter == InitFilter /\ [][NextFilter]_vars

\* ------------------------------------------------- the pipeline with save
\* The stage methods, the gurobipy functions and save, for the accepted
\* modelling and formulation names.  world.output are the output folders on
\* disk: folder name -> file name -> content.
SaveConfigs ==
    [use_ex_cap : BOOLEAN, filtering_layers : {DefaultLayers},
     modelling : AcceptedModelling, formulation : AcceptedFormulations,
     formulation_params : ParamVectors]

\* the default folder, and a name that lacks the final "/"
DirNames == {"None", "out"}

Save ==
    \E dir_name \in DirNames :
        LET r == Resite_save(resite, dir_name)
        IN /\ resite' = r.obj
           /\ raised' = r.raised
           /\ op' = "save"
           /\ world' = IF r.files = <<>> THEN world
                        ELSE [world EXCEPT !.output =
                                 (r.folder :> (r.files @@ (IF r.folder \in DOMAIN world.output
                                                           THEN world.output[r.folder]
                                                           ELSE <<>>)))
                                 @@ world.output]
           /\ UNCHANGED config

InitSave ==
    /\ world = PipelineWorld @@ [output |-> <<>>]
    /\ config \in SaveConfigs
    /\ \E regs \in RegionLists : resite = Resite_init(regs, TechNames)
    /\ op = "__init__"
    /\ raised = "None"

NextSave ==
    \/ BuildInputData
    \/ BuildModel
    \/ SolveModel
    \/ RetrieveSolution
    \/ RetrieveSitesData
    \/ GurobipyBuildModel
    \/ GurobipySolveModel
    \/ Save

SpecSave == InitSave /\ [][NextSave]_vars

\* ------------------------------------------------ the model formulations
\* The backends over a family of inputs: every region's shape holds its own
\* points; wind_onshore has MaxCap of potential at every point, a unit of
\* legacy capacity at point 1 and a capacity factor of 1/Scale at every
\* timestep or of 1 at the first timestep only; pv_utility has a unit of
\* potential at point 1 or none at all and generates at the first timestep
\* only; the load is one unit at every timestep in every region.
WindProfiles ==
    {[t \in Timestamps |-> 1], [t \in Timestamps |-> IF t = 1 THEN Scale ELSE 0]}

ModelWorlds ==
    {[shapes |-> [r \in Range(RegionNames) |->
                    {p \in Points : RegionNames[((p - 1) % MaxRegions) + 1] = r}],
      legacy |-> [tp \in AllTechPoints |-> IF tp = <<"wind_onshore", 1>> THEN 1 ELSE 0],
      potential |-> [tp \in AllTechPoints |->
                    IF tp[1] = "wind_onshore" THEN MaxCap
                    ELSE IF tp[2] = 1 THEN pv ELSE 0],
      cap_factor |-> [tp \in AllTechPoints |-> [t \in Timestamps |->
                    IF tp[1] = "wind_onshore" THEN wind[t]
                    ELSE IF t = 1 THEN Scale ELSE 0]],
      load |-> [r \in Range(RegionNames) |-> [t \in Timestamps |-> 1]],
      mask |-> [layer \in KnownLayers |-> [tech \in Range(TechNames) |-> {}]]] :
        pv \in {0, 1}, wind \in WindProfiles}

\* targets of 0%, 1/Scale and 100%, the same for every entry of the vector
TargetVectors == {[i \in 1..n |-> v] : n \in 1..MaxRegions, v \in {0, 1, Scale}}

ModelConfigs ==
    [use_ex_cap : BOOLEAN, filtering_layers : {DefaultLayers},
     modelling : {"gurobipy"}, formulation : AcceptedFormulations,
     formulation_params : TargetVectors]

\* meet_demand_with_capacity runs have one region and a required capacity per
\* technology, the other runs a target per region
InitModel ==
    /\ world \in ModelWorlds
    /\ config \in ModelConfigs
    /\ \E regs \in RegionLists :
          /\ resite = Resite_init(regs, TechNames)
          /\ IF config.formulation = "meet_demand_with_capacity"
             THEN Len(regs) = 1 /\ Len(config.formulation_params) = Len(TechNames)
             ELSE Len(config.formulation_params) = Len(regs)
    /\ op = "__init__"
    /\ raised = "None"

NextModel ==
    \/ BuildInputData
    \/ BuildModel
    \/ PyomoBuildModel
    \/ GurobipyBuildModel
    \/ GurobipySolveModel
    \/ RetrieveSolution

SpecModel == InitModel /\ [][NextModel]_vars

\* ================================================================ claims
\* The attributes of the orchestrator that build_input_data fills (resite.py:105-187)
\* and the two lists of the constructor.
InputFields ==
    {"regions", "technologies", "use_ex_cap", "filtering_layers", "load_df",
     "tech_points_dict", "tech_points_tuples", "cap_factor_df", "cap_potential_ds",
     "existing_cap_ds", "existing_cap_percentage_ds", "generation_potential_df",
     "region_tech_points_dict"}

\* The model object and its handles (resite.py:74, models/gurobipy.py:116-118)
ModelFields == {"instance", "y", "obj"}

\* What build_model records of its call (resite.py:321-323)
CallFields == {"modelling", "formulation", "formulation_params"}

\* The result fields (resite.py:358-364, 389-391)
ResultFields ==
    {"objective", "selected_tech_points_dict", "optimal_cap_ds",
     "selected_existing_cap_ds", "selected_cap_potential_ds", "selected_cap_factor_df"}

\* a and b agree on the attributes in names: set in both or in neither, equal where set
Same(a, b, names) ==
    \A k \in names : /\ (k \in DOMAIN a) <=> (k \in DOMAIN b)
                     /\ (k \in DOMAIN a) => (a[k] = b[k])

InputsBuilt(obj) == BuildAttrs \subseteq DOMAIN obj

ModelBuilt(obj) == obj.instance.kind # "None"

ModelSolved(obj) == ModelBuilt(obj) /\ obj.instance.solution.status # "unsolved"

\* the formulation/region-count and cardinality conditions of resite.py:306-312
RegionCheckFails ==
    \/ config.formulation = "meet_demand_with_capacity" /\ Len(resite.regions) # 1
    \/ /\ config.formulation \in RegionScopedFormulations
       /\ Len(config.formulation_params) # Len(resite.regions)

\* a parameter vector of the length the formulation asks for
RightLength ==
    IF config.formulation = "meet_demand_with_capacity"
    THEN Len(config.formulation_params) = Len(resite.technologies)
    ELSE Len(config.formulation_params) = Len(resite.regions)

StageOps == {"build_model", "solve_model", "retrieve_solution", "retrieve_sites_data"}
BackendOps ==
    {"pyomo.build_model", "gurobipy.build_model", "pyomo.solve_model", "gurobipy.solve_model"}

\* C1: a stage method called before its prior stage has completed (build_model
\* before build_input_data, solve_model before build_model, retrieve_solution
\* before solve_model) fails with an ordering error raised by a precondition
\* check and returns no result.
C1_OrderingError ==
    /\ (op = "build_model" /\ ~InputsBuilt(resite)) => raised = "OrderingError"
    /\ (op = "solve_model" /\ ~ModelBuilt(resite)) => raised = "OrderingError"
    /\ (op = "retrieve_solution" /\ ~ModelSolved(resite)) => raised = "OrderingError"

\* C2: build_model with formulation meet_demand_with_capacity on an orchestrator
\* whose region list does not hold exactly one region raises ValueError, whatever
\* the modelling language and the parameter vector, and leaves the orchestrator
\* as it was: no model instance is created.
C2_OneRegionOnly ==
    [][(/\ op' = "build_model"
        /\ config.formulation = "meet_demand_with_capacity"
        /\ Len(resite.regions) # 1)
       => (raised' = "ValueError" /\ resite' = resite)]_vars

C2_Witness ==
    /\ op = "build_model" /\ raised = "ValueError"
    /\ config.formulation = "meet_demand_with_capacity"
    /\ Len(resite.regions) = 2
    /\ resite.instance = NoneInstance
    /\ InputsBuilt(resite)

\* C3: a parameter vector of the wrong length makes build_model fail: for the
\* region-scoped formulations whenever its length differs from the number of
\* regions, for meet_demand_with_capacity whenever it does not hold one required
\* capacity per technology; the latter also for the backends' build_model, which
\* read the vector (models/pyomo.py:126-134, models/gurobipy.py:102-107).
C3_LengthMismatchFails ==
    /\ (/\ op = "build_model"
        /\ config.formulation \in {"meet_RES_targets_agg", "meet_RES_targets_hourly"}
        /\ Len(config.formulation_params) # Len(resite.regions))
       => raised # "None"
    /\ (/\ op \in {"build_model", "pyomo.build_model", "gurobipy.build_model"}
        /\ config.formulation = "meet_demand_with_capacity"
        /\ Len(config.formulation_params) # Len(resite.technologies))
       => raised # "None"

\* C4 as claimed: build_model with a modelling language outside pyomo, docplex,
\* gurobipy fails with the error that names the accepted languages (the
\* assertion of resite.py:315) and records nothing.
C4_AlwaysAssertion ==
    (op = "build_model" /\ config.modelling \notin AcceptedModelling)
        => (raised = "AssertionError" /\ CallFields \cap DOMAIN resite = {})

\* C4 amended: build_model with a modelling language outside pyomo, docplex,
\* gurobipy fails and leaves the orchestrator as it was (nothing recorded, no
\* backend invoked); the error is the assertion that names the accepted
\* languages unless the formulation/region-count or the cardinality check, which
\* come first, raises its ValueError.
C4_UnknownModelling ==
    [][(op' = "build_model" /\ config.modelling \notin AcceptedModelling)
       => (/\ resite' = resite
           /\ raised' = IF RegionCheckFails THEN "ValueError" ELSE "AssertionError")]_vars

C4_Witness ==
    /\ op = "build_model" /\ raised = "AssertionError"
    /\ config.modelling \notin AcceptedModelling
    /\ ~RegionCheckFails
    /\ InputsBuilt(resite)
    /\ CallFields \cap DOMAIN resite = {}

\* C5: build_model with a formulation no backend implements fails, for each of
\* the three modelling languages, with the unknown-formulation error (the
\* backend's assertion over its accepted formulations).
C5_UnknownFormulation ==
    (/\ op = "build_model"
     /\ config.formulation \notin AcceptedFormulations
     /\ config.modelling \in AcceptedModelling)
        => raised = "AssertionError"

\* C6: after build_input_data, build_model with an accepted modelling language,
\* an accepted formulation and a parameter vector of the right length returns
\* with a model instance of the selected backend that has a variable x for every
\* (region, timestep) and a variable y for every TechPoint of the index, all
\* bounded by 0 and 1.
C6_BuildDelegates ==
    (/\ op = "build_model"
     /\ InputsBuilt(resite)
     /\ config.modelling \in AcceptedModelling
     /\ config.formulation \in AcceptedFormulations
     /\ ~RegionCheckFails
     /\ RightLength)
        => /\ raised = "None"
           /\ resite.instance.kind = config.modelling
           /\ resite.instance.x = Range(resite.regions) \X Timestamps
           /\ resite.instance.y = resite.tech_points_tuples
           /\ resite.instance.bounds = <<0, Scale>>

C8_RetrievedSolution ==
    (op = "retrieve_solution" /\ raised = "None" /\ ModelSolved(resite))
        => LET sol == resite.instance.solution
               selected == resite.selected_tech_points_dict
           IN /\ sol.status = "optimal"
              /\ DOMAIN resite.optimal_cap_ds = resite.tech_points_tuples
              /\ \A tp \in resite.tech_points_tuples :
                    /\ resite.optimal_cap_ds[tp] = sol.y[tp] * resite.cap_potential_ds[tp]
                    /\ (sol.y[tp] > 0) <=> (tp[1] \in DOMAIN selected /\ tp[2] \in selected[tp[1]])
              /\ \A tech \in DOMAIN selected : \A p \in selected[tech] :
                    <<tech, p>> \in resite.tech_points_tuples
              /\ resite.objective = sol.objective

C8_Witness ==
    /\ op = "retrieve_solution" /\ raised = "None" /\ ModelSolved(resite)
    /\ resite.modelling = "gurobipy"
    /\ \E tp \in resite.tech_points_tuples : resite.instance.solution.y[tp] = 0
    /\ \E tp \in resite.tech_points_tuples : resite.instance.solution.y[tp] > 0

\* C9: build_model, solve_model, retrieve_solution and retrieve_sites_data (and
\* the backends' build_model and solve_model) leave every input of
\* build_input_data as it was; they remove no attribute and set or change only
\* the record of the call, the model and the result fields.
C9_InputsKept ==
    [][(op' \in StageOps \cup BackendOps)
       => (/\ Same(resite, resite', InputFields)
           /\ DOMAIN resite \subseteq DOMAIN resite'
           /\ \A k \in DOMAIN resite' :
                 (k \notin DOMAIN resite \/ resite'[k] # resite[k])
                    => k \in CallFields \cup ModelFields \cup ResultFields)]_vars

C9_Witness ==
    /\ op = "retrieve_sites_data" /\ raised = "None"
    /\ InputsBuilt(resite)
    /\ DOMAIN resite.selected_cap_potential_ds # {}
    /\ DOMAIN resite.selected_cap_potential_ds # resite.tech_points_tuples

\* C10: after build_input_data and after build_input_data_new, every TechPoint
\* of the index has a capacity potential of at least its existing capacity, and
\* where the legacy capacity exceeds the computed potential the potential is the
\* legacy capacity.
C10_MonotonicPotential ==
    ({"tech_points_tuples", "cap_potential_ds", "existing_cap_ds"} \subseteq DOMAIN resite)
        => \A tp \in resite.tech_points_tuples :
              /\ tp \in DOMAIN resite.cap_potential_ds
              /\ tp \in DOMAIN resite.existing_cap_ds
              /\ resite.cap_potential_ds[tp] >= resite.existing_cap_ds[tp]
              /\ (resite.existing_cap_ds[tp] > world.potential[tp])
                    => (resite.cap_potential_ds[tp] = resite.existing_cap_ds[tp])

C10_Witness ==
    /\ op = "build_input_data_new" /\ raised = "None"
    /\ \E tp \in resite.tech_points_tuples :
          /\ resite.existing_cap_ds[tp] > world.potential[tp]
          /\ resite.cap_potential_ds[tp] = resite.existing_cap_ds[tp]

\* the outcome of either input-building pipeline
InputOps == {"build_input_data", "build_input_data_new"}

\* C11: after build_input_data (and build_input_data_new), the capacity-factor
\* columns, the capacity potential, the existing capacity, the existing-capacity
\* percentage and the generation potential are indexed by one and the same set
\* of TechPoints, which is tech_points_tuples and the flattening of
\* tech_points_dict.
C11_IndexConsistency ==
    (op \in InputOps /\ raised = "None")
        => /\ DOMAIN resite.cap_factor_df = resite.tech_points_tuples
           /\ DOMAIN resite.cap_potential_ds = resite.tech_points_tuples
           /\ DOMAIN resite.existing_cap_ds = resite.tech_points_tuples
           /\ DOMAIN resite.existing_cap_percentage_ds = resite.tech_points_tuples
           /\ DOMAIN resite.generation_potential_df = resite.tech_points_tuples
           /\ Tuples(resite.tech_points_dict) = resite.tech_points_tuples
           /\ \A tech \in DOMAIN resite.tech_points_dict : resite.tech_points_dict[tech] # {}

C11_Witness ==
    /\ op = "build_input_data" /\ raised = "None"
    /\ resite.tech_points_tuples # {}
    /\ world.mask["resource_quality"]["wind_onshore"] = {}
    /\ \E p \in Points : /\ world.potential[<<"wind_onshore", p>>] = 0
                         /\ <<"wind_onshore", p>> \notin resite.tech_points_tuples

C13_LegacyFloor ==
    (InputsBuilt(resite) /\ resite.instance.kind \in {"pyomo", "gurobipy"})
        => LET model == resite.instance
               floor == resite.existing_cap_percentage_ds
           IN /\ DOMAIN model.potential_constraint = resite.tech_points_tuples
              /\ model.y = resite.tech_points_tuples
              /\ \A tp \in resite.tech_points_tuples : model.potential_constraint[tp] = floor[tp]
              /\ model.solution.status = "optimal"
                    => \A tp \in resite.tech_points_tuples :
                          model.solution.y[tp] * floor[tp][2] >= floor[tp][1] * Scale

C13_Witness ==
    /\ op = "gurobipy.solve_model" /\ raised = "None"
    /\ resite.instance.solution.status = "optimal"
    /\ \E tp \in resite.tech_points_tuples :
          /\ resite.existing_cap_percentage_ds[tp][1] > 0
          /\ resite.instance.solution.y[tp] * resite.existing_cap_percentage_ds[tp][2]
                = resite.existing_cap_percentage_ds[tp][1] * Scale
    /\ \E tp \in resite.tech_points_tuples : resite.existing_cap_percentage_ds[tp][1] = 0

\* the two backends applied to the same orchestrator, formulation and vector
PyomoBuilt == pyomo_build_model(resite, config.formulation, config.formulation_params)
GurobipyBuilt == gurobipy_build_model(resite, config.formulation, config.formulation_params)

\* the instance has exactly one solve outcome, and it is optimal
NonDegenerate(outcomes) ==
    Cardinality(outcomes) = 1 /\ \A o \in outcomes : o.status = "optimal"

\* C14: the pyomo and the gurobipy backend are interchangeable.  After a
\* build_model of either backend, the other backend, on the same orchestrator
\* inputs, formulation and parameter vector, fails alike or builds the same
\* variables with the same bounds, the same generation_check,
\* potential_constraint, policy_target and capacity_target constraints and the
\* same objective with the same sense as the model the orchestrator now holds;
\* the two models have the same optimal solutions, and on an instance with a
\* single optimum the two retrieve_solution return the same objective value
\* and the same selected points.
C14_BackendsInterchangeable ==
    (op \in {"pyomo.build_model", "gurobipy.build_model"})
        => /\ PyomoBuilt.raised = raised
           /\ GurobipyBuilt.raised = raised
           /\ raised = "None"
                 => LET pm == PyomoBuilt.obj.instance
                        gm == GurobipyBuilt.obj.instance
                        pyomo_outcomes == Solutions(pm)
                        gurobipy_outcomes == Solutions(gm)
                    IN /\ resite.instance \in {pm, gm}
                       /\ pm.kind = "pyomo" /\ gm.kind = "gurobipy"
                       /\ pm.x = gm.x /\ pm.y = gm.y /\ pm.bounds = gm.bounds
                       /\ pm.generation_check = gm.generation_check
                       /\ pm.potential_constraint = gm.potential_constraint
                       /\ pm.policy_target = gm.policy_target
                       /\ pm.capacity_target = gm.capacity_target
                       /\ pm.objective = gm.objective
                       /\ pyomo_outcomes = gurobipy_outcomes
                       /\ NonDegenerate(pyomo_outcomes)
                             => \A o \in pyomo_outcomes :
                                   LET ps == pyomo_retrieve_solution(
                                                 SetAttr(PyomoBuilt.obj, "instance",
                                                         [pm EXCEPT !.solution = o]))
                                       gs == gurobipy_retrieve_solution(
                                                 gurobipy_solve_model(GurobipyBuilt.obj, o).obj)
                                   IN /\ ps.raised = "None" /\ gs.raised = "None"
                                      /\ ps.objective = gs.objective
                                      /\ ps.selected_tech_points_dict
                                            = gs.selected_tech_points_dict

C14_Witness ==
    /\ op = "gurobipy.build_model" /\ raised = "None"
    /\ resite.instance = GurobipyBuilt.obj.instance
    /\ PyomoBuilt.raised = "None"
    /\ NonDegenerate(Solutions(PyomoBuilt.obj.instance))
    /\ \E o \in Solutions(PyomoBuilt.obj.instance) : \E tp \in resite.tech_points_tuples :
          o.y[tp] > 0

\* C15: an infeasible instance is reported as such.  retrieve_solution on a
\* model of the recorded backend, pyomo or gurobipy, whose solve ended
\* infeasible because the required coverage of a region is above the generation
\* of all its points at every timestep, gives the caller a solve status to tell the case by, not a crash, and sets no
\* objective, selected points or optimal capacities.
C15_InfeasibleReported ==
    (/\ op = "retrieve_solution"
     /\ resite.instance.kind \in {"pyomo", "gurobipy"}
     /\ Has(resite, "modelling") /\ resite.modelling = resite.instance.kind
     /\ resite.formulation \in {"meet_RES_targets_agg", "meet_RES_targets_hourly"}
     /\ resite.instance.solution.status = "infeasible")
        => /\ raised = "SolveStatusError"
           /\ ResultFields \cap DOMAIN resite = {}

\* the call of filter_points on the inputs of the state
Filtered == filter_points(resite.technologies, world.init_points, config.filtering_layers)

\* the keys of the mapping at the given positions, in the order of the mapping
KeysAt(layers, idx) ==
    [k \in 1..Cardinality(idx) |->
        layers[CHOOSE i \in idx : Cardinality({j \in idx : j <= i}) = k][1]]

\* layer i of the mapping is enabled and applies to the deployment class of the
\* technology: bathymetry to offshore and floating only, the five land layers
\* to everything but offshore and floating
EnabledFor(layers, i, tech) ==
    /\ layers[i][2]
    /\ layers[i][1] = "bathymetry" => Deployment(tech) \in {"offshore", "floating"}
    /\ layers[i][1] \in {"orography", "population_density", "protected_areas", "forestry",
                         "water_mask"}
          => Deployment(tech) \notin {"offshore", "floating"}

\* the initial points left when the enabled and applicable layers before
\* position i have removed what they exclude
PointsBefore(layers, i, tech) ==
    world.init_points \
        UNION {world.mask[layers[j][1]][tech] :
                  j \in {m \in 1..(i - 1) : EnabledFor(layers, m, tech)
                                             /\ layers[m][1] \in KnownLayers}}

\* the statement of C16 as written: after a filter_points that returned, the
\* layers applied for a technology are all the enabled layers that apply to
\* its deployment class, in the order of the mapping.
C16_SkippedIffDisabledOrInapplicable ==
    (op = "filter_points" /\ raised = "None")
        => \A tech \in Range(resite.technologies) :
              Filtered.applied[tech]
                  = KeysAt(config.filtering_layers,
                           {i \in DOMAIN config.filtering_layers :
                               EnabledFor(config.filtering_layers, i, tech)})

\* C16 (amended): in filter_points a layer is skipped for a technology if and
\* only if its flag is false, or it does not apply to the technology's
\* deployment class, or no point of the technology is left when the layer is
\* reached; the other layers are applied in the order of the mapping, and the
\* points returned are the initial points none of the applied layers excludes.
\* The call raises exactly when a layer that is not skipped is protected_areas
\* or a name filter_points_by_layer does not know.
C16_SkippedAlsoWhenEmpty ==
    (op = "filter_points")
        => LET layers == config.filtering_layers
               due(tech) == {i \in DOMAIN layers : /\ EnabledFor(layers, i, tech)
                                                   /\ PointsBefore(layers, i, tech) # {}}
           IN /\ raised = Filtered.raised
              /\ raised = "None"
                    => /\ resite.tech_points_dict = Filtered.dict
                       /\ \A tech \in Range(resite.technologies) :
                             /\ Filtered.applied[tech] = KeysAt(layers, due(tech))
                             /\ resite.tech_points_dict[tech]
                                   = PointsBefore(layers, Len(layers) + 1, tech)
              /\ (raised # "None")
                    <=> \E tech \in Range(resite.technologies) : \E i \in due(tech) :
                           layers[i][1] \notin (KnownLayers \ {"protected_areas"})

C16_Witness ==
    /\ op = "filter_points" /\ raised = "None"
    /\ resite.technologies = <<"wind_onshore", "wind_offshore">>
    /\ config.filtering_layers = <<<<"bathymetry", TRUE>>, <<"orography", TRUE>>>>
    /\ world.init_points = Points
    /\ Filtered.applied["wind_onshore"] = <<"orography">>
    /\ Filtered.applied["wind_offshore"] = <<"bathymetry">>
    /\ resite.tech_points_dict["wind_offshore"] = Points \ {NPoints}

\* C17: a name outside the seven known layers among the keys of
\* filtering_layers makes filter_points raise, whatever its flag, the
\* deployment classes of the technologies and the points left when the name is
\* reached.
C17_UnknownLayerFatal ==
    (/\ op = "filter_points"
     /\ \E i \in DOMAIN config.filtering_layers :
           config.filtering_layers[i][1] \notin KnownLayers)
        => raised # "None"

\* C18: filtering is idempotent.  The points filter_points returns for a
\* technology are among the initial points and the caller's list of initial
\* points is as it was; passing the points returned for a technology through
\* the same filtering_layers again returns, without error, the same points.
C18_FilterIdempotent ==
    [][/\ (op' = "filter_points")
            => /\ world'.init_points = world.init_points
               /\ raised' = "None"
                     => \A tech \in DOMAIN resite'.tech_points_dict :
                           resite'.tech_points_dict[tech] \subseteq world.init_points
       /\ (op' = "filter_points_again")
            => /\ raised' = "None"
               /\ \E tech \in DOMAIN resite.tech_points_dict :
                     /\ resite'.technologies = <<tech>>
                     /\ world'.init_points = resite.tech_points_dict[tech]
                     /\ resite'.tech_points_dict = (tech :> resite.tech_points_dict[tech])
      ]_vars

C18_Witness ==
    /\ op = "filter_points_again" /\ raised = "None"
    /\ Len(config.filtering_layers) = MaxLayers
    /\ \A i \in DOMAIN config.filtering_layers : config.filtering_layers[i][2]
    /\ Filtered.applied[resite.technologies[1]] # <<>>
    /\ \E tech \in DOMAIN resite.tech_points_dict : resite.tech_points_dict[tech] # {}

\* C19: after the region-membership computation of build_input_data, every
\* TechPoint of the final index is in region_tech_points_dict of exactly one
\* region, also when the shapes of two regions overlap or share a boundary.
C19_ExactlyOneRegion ==
    (op = "build_input_data" /\ raised = "None")
        => \A tp \in resite.tech_points_tuples :
              Cardinality({r \in Range(resite.regions) :
                              tp \in resite.region_tech_points_dict[r]}) = 1

\* C20: the region mapping tolerates a technology without a point in a region.
\* When the mapping step of build_input_data or build_input_data_new is reached
\* with a technology none of whose points lies in the shape of some region, the
\* call returns and each region holds, for every technology, the pairs of the
\* technology with its points inside the region's shape.
C20_EmptyRegionTolerated ==
    (/\ op \in InputOps
     /\ Has(resite, "tech_points_dict") /\ Has(resite, "generation_potential_df")
     /\ DOMAIN resite.generation_potential_df = Tuples(resite.tech_points_dict)
     /\ \E tech \in DOMAIN resite.tech_points_dict : \E r \in Range(resite.regions) :
           resite.tech_points_dict[tech] \cap world.shapes[r] = {})
        => /\ raised = "None"
           /\ \A r \in Range(resite.regions) :
                 resite.region_tech_points_dict[r]
                     = {tp \in Tuples(resite.tech_points_dict) : tp[2] \in world.shapes[r]}

\* C21: save, called after the full pipeline, persists a bundle that holds the
\* run configuration, the TechPoint index, the capacity factors, the capacity
\* potential and existing capacity, the solved objective value, the selected
\* points and the optimal capacities.
C21_SaveBundle ==
    (op = "save" /\ raised = "None")
        => \E folder \in DOMAIN world.output :
              LET yaml == world.output[folder].config_yaml
                  bundle == world.output[folder].resite_model_p
              IN /\ \A a \in SaveParams : yaml[a] = resite[a]
                 /\ Tuples(bundle.tech_points_dict) = resite.tech_points_tuples
                 /\ bundle.cap_factor_df = resite.cap_factor_df
                 /\ bundle.cap_potential_ds = resite.cap_potential_ds
                 /\ bundle.existing_cap_ds = resite.existing_cap_ds
                 /\ bundle.selected_tech_points_dict = resite.selected_tech_points_dict
                 /\ bundle.optimal_cap_ds = resite.optimal_cap_ds
                 /\ \E a \in DOMAIN bundle \cup DOMAIN yaml :
                       a = "objective" /\ (bundle @@ yaml)[a] = resite.objective

\* the orchestrator holds a model of the pyomo or gurobipy backend built on its inputs
BackendModel == InputsBuilt(resite) /\ resite.instance.kind \in {"pyomo", "gurobipy"}

\* one region, one TechPoint without existing capacity whose generation at
\* full deployment equals the load at every timestep, and an hourly target of 100%
SingleTechPointScenario ==
    /\ BackendModel
    /\ config.formulation = "meet_RES_targets_hourly"
    /\ config.formulation_params = <<Scale>>
    /\ Len(resite.regions) = 1
    /\ Cardinality(resite.tech_points_tuples) = 1
    /\ \A tp \in resite.tech_points_tuples :
          /\ resite.existing_cap_ds[tp] = 0
          /\ \A t \in Timestamps :
                resite.cap_factor_df[tp][t] * resite.cap_potential_ds[tp]
                    = resite.load_df[resite.regions[1]][t] * Scale

\* C22: single-region single-technology scenario.  With one region, one
\* TechPoint without existing capacity whose capacity factor times potential
\* equals the load at every timestep (load 10, potential 20, capacity factor
\* 0.5) and meet_RES_targets_hourly with a target of 100%, the only optimum of
\* the built model is y = 1.0 at that TechPoint, with the potential (20) as
\* objective value.
C22_SingleTechPointOptimum ==
    SingleTechPointScenario
        => LET optimum ==
                   [status |-> "optimal",
                    y |-> [tp \in resite.tech_points_tuples |-> Scale],
                    objective |-> SumOver([tp \in resite.tech_points_tuples |->
                                              Scale * resite.cap_potential_ds[tp]],
                                          resite.tech_points_tuples)]
           IN /\ Solutions(resite.instance) = {optimum}
              /\ resite.instance.solution \in {Unsolved, optimum}

C22_Witness ==
    /\ SingleTechPointScenario
    /\ op = "gurobipy.solve_model" /\ raised = "None"
    /\ \A tp \in resite.tech_points_tuples :
          /\ resite.cap_potential_ds[tp] = 2 * resite.load_df[resite.regions[1]][1]
          /\ \A t \in Timestamps : 2 * resite.cap_factor_df[tp][t] = Scale
          /\ resite.instance.solution.y[tp] = Scale
          /\ resite.instance.solution.objective = Scale * resite.cap_potential_ds[tp]

\* no existing capacity at any TechPoint and a target of 0% for every region,
\* in one of the two meet_RES_targets formulations
BoundaryScenario ==
    /\ BackendModel
    /\ config.formulation \in {"meet_RES_targets_agg", "meet_RES_targets_hourly"}
    /\ \A i \in DOMAIN config.formulation_params : config.formulation_params[i] = 0
    /\ \A tp \in resite.tech_points_tuples : resite.existing_cap_ds[tp] = 0

\* C23: boundary scenario.  With zero existing capacity everywhere and a target
\* of 0%, aggregate or hourly, every solve of the built model is optimal with
\* objective 0 and no deployment, and retrieve_solution of either backend
\* returns objective 0 and an empty mapping of selected points.
C23_ZeroTargetBoundary ==
    BoundaryScenario
        => /\ \A s \in Solutions(resite.instance) :
                 /\ s.status = "optimal"
                 /\ s.objective = 0
                 /\ \A tp \in resite.tech_points_tuples : s.y[tp] = 0
                 /\ LET solved == [resite.instance EXCEPT !.solution = s]
                        r == IF resite.instance.kind = "pyomo"
                             THEN pyomo_retrieve_solution(
                                      SetAttr(resite, "instance", solved))
                             ELSE gurobipy_retrieve_solution(
                                      SetAttr(SetAttr(resite, "y", solved), "obj", solved))
                    IN /\ r.raised = "None"
                       /\ r.objective = 0
                       /\ r.selected_tech_points_dict = <<>>
           /\ (op = "retrieve_solution" /\ raised = "None")
                 => /\ resite.objective = 0
                    /\ resite.selected_tech_points_dict = <<>>

C23_Witness ==
    /\ BoundaryScenario
    /\ op = "retrieve_solution" /\ raised = "None"
    /\ resite.tech_points_tuples # {}
    /\ resite.y.solution.status = "optimal"
    /\ resite.objective = 0
    /\ DOMAIN resite.selected_tech_points_dict = {}
    /\ \A tp \in resite.tech_points_tuples : resite.optimal_cap_ds[tp] = 0

\* the TechPoints of the index whose point lies in the shape of region r
PointsOfRegion(r) == {tp \in resite.tech_points_tuples : tp[2] \in world.shapes[r]}

\* generation of the TechPoints in tps at timestep t under the deployment yv
GenerationOf(tps, t, yv) ==
    SumOver([tp \in tps |-> resite.cap_factor_df[tp][t] * resite.cap_potential_ds[tp] * yv[tp]],
            tps)

\* C24: generation adequacy.  In every formulation and backend the built model
\* has, for each region and timestep, one generation_check constraint: the sum
\* over exactly that region's TechPoints of capacity factor * potential * y is
\* at least load * x; TechPoints of other regions have no term in it.  In a
\* solved model the covered share of each region's load is generated by the
\* region's own TechPoints.
C24_GenerationAdequacy ==
    BackendModel
        => LET model == resite.instance
           IN /\ DOMAIN model.generation_check = Range(resite.regions) \X Timestamps
              /\ \A rt \in DOMAIN model.generation_check :
                    LET gc == model.generation_check[rt]
                    IN /\ DOMAIN gc.coef = PointsOfRegion(rt[1])
                       /\ \A tp \in DOMAIN gc.coef :
                             gc.coef[tp] = resite.cap_factor_df[tp][rt[2]]
                                               * resite.cap_potential_ds[tp]
                       /\ gc.load = world.load[rt[1]][rt[2]]
              /\ model.solution.status = "optimal"
                    => \A rt \in Range(resite.regions) \X Timestamps :
                          GenerationOf(PointsOfRegion(rt[1]), rt[2], model.solution.y)
                              >= world.load[rt[1]][rt[2]] * XMax(model, rt, model.solution.y)
                                     * Scale

\* a solved two-region model with full hourly coverage in which each region has
\* TechPoints of its own and these generate the region's whole load
C24_Witness ==
    /\ BackendModel
    /\ op = "gurobipy.solve_model" /\ raised = "None"
    /\ Len(resite.regions) = 2
    /\ config.formulation = "meet_RES_targets_hourly"
    /\ config.formulation_params = <<Scale, Scale>>
    /\ resite.instance.solution.status = "optimal"
    /\ \A r \in Range(resite.regions) :
          /\ PointsOfRegion(r) # {}
          /\ PointsOfRegion(r) # resite.tech_points_tuples
          /\ \A t \in Timestamps :
                GenerationOf(PointsOfRegion(r), t, resite.instance.solution.y)
                    >= world.load[r][t] * Scale * Scale

\* the model a backend builds on the orchestrator's inputs for a formulation and
\* the run's targets
BuiltBy(kind, formulation) ==
    IF kind = "pyomo"
    THEN pyomo_build_model(resite, formulation, config.formulation_params).obj.instance
    ELSE gurobipy_build_model(resite, formulation, config.formulation_params).obj.instance

\* xv satisfies the policy_target constraints of model that bound region r
PolicyHolds(model, r, xv) ==
    \A k \in DOMAIN model.policy_target :
        LET pt == model.policy_target[k]
        IN (\A rt \in pt.x : rt[1] = r)
              => SumOver([rt \in pt.x |-> xv[rt]], pt.x) >= pt.rhs

\* the outcome of solving a model: whether it has a feasible point, and the
\* optimal objective value if it has one
Optimum(model) ==
    LET s == CHOOSE s \in Solutions(model) : TRUE
    IN [feasible |-> s.status = "optimal",
        objective |-> IF s.status = "optimal" THEN s.objective ELSE 0]

\* a backend's build_model returned on a meet_RES_targets run
TargetsBuilt ==
    /\ op \in {"pyomo.build_model", "gurobipy.build_model"} /\ raised = "None"
    /\ config.formulation \in {"meet_RES_targets_agg", "meet_RES_targets_hourly"}

\* C25: the hourly formulation is at least as strong as the aggregate one.  For
\* the same inputs and targets the two models differ in policy_target only;
\* every x that satisfies the hourly policy_target satisfies the aggregate
\* one, so every (x, y) feasible for hourly is feasible for agg; when both are
\* feasible the hourly optimum is not below the aggregate optimum, and a
\* feasible hourly model has a feasible aggregate model.
C25_HourlyStronger ==
    TargetsBuilt
        => LET kind == resite.instance.kind
               hourly == BuiltBy(kind, "meet_RES_targets_hourly")
               agg == BuiltBy(kind, "meet_RES_targets_agg")
               best_hourly == Optimum(hourly)
               best_agg == Optimum(agg)
           IN /\ resite.instance \in {hourly, agg}
              /\ hourly.generation_check = agg.generation_check
              /\ hourly.potential_constraint = agg.potential_constraint
              /\ hourly.objective = agg.objective
              /\ hourly.x = agg.x /\ hourly.y = agg.y /\ hourly.bounds = agg.bounds
              /\ \A r \in Range(resite.regions) :
                    \A xv \in [{r} \X Timestamps -> Levels(hourly)] :
                        PolicyHolds(hourly, r, xv) => PolicyHolds(agg, r, xv)
              /\ \A yv \in [hourly.y -> Levels(hourly)] :
                    FeasibleY(hourly, yv) => FeasibleY(agg, yv)
              /\ best_hourly.feasible => best_agg.feasible
              /\ best_hourly.feasible => best_hourly.objective >= best_agg.objective

\* an instance that is feasible for the aggregate formulation and infeasible
\* for the hourly one, with the same inputs and targets
C25_Witness ==
    /\ TargetsBuilt
    /\ Optimum(BuiltBy(resite.instance.kind, "meet_RES_targets_agg")).feasible
    /\ ~Optimum(BuiltBy(resite.instance.kind, "meet_RES_targets_hourly")).feasible

\* the deployments the constraints of the orchestrator's model allow
FeasibleSet == {yv \in [resite.instance.y -> Levels(resite.instance)] :
                   FeasibleY(resite.instance, yv)}

\* deployed capacity: sum over the TechPoints of the index of y * potential
DeployedCapacity(yv) ==
    SumOver([tp \in resite.tech_points_tuples |-> yv[tp] * resite.cap_potential_ds[tp]],
            resite.tech_points_tuples)

\* covered load: sum over regions and timesteps of the largest x the generation allows
CoveredLoad(yv) ==
    SumOver([rt \in Range(resite.regions) \X Timestamps |-> XMax(resite.instance, rt, yv)],
            Range(resite.regions) \X Timestamps)

\* C26: the objective sense is fixed per formulation in both backends.  The
\* two meet_RES_targets formulations minimize the sum over all TechPoints of
\* the index of y * potential, meet_demand_with_capacity maximizes the sum of
\* x over regions and timesteps; an optimal solve returns the least deployed
\* capacity, respectively the largest covered load, of the feasible set.
C26_ObjectiveSense ==
    BackendModel
        => LET objective == resite.instance.objective
               solution == resite.instance.solution
           IN /\ IF config.formulation = "meet_demand_with_capacity"
                 THEN /\ objective.sense = "maximize"
                      /\ objective.x = Range(resite.regions) \X Timestamps
                      /\ DOMAIN objective.y = {}
                 ELSE /\ objective.sense = "minimize"
                      /\ objective.x = {}
                      /\ DOMAIN objective.y = resite.tech_points_tuples
                      /\ \A tp \in resite.tech_points_tuples :
                            objective.y[tp] = resite.cap_potential_ds[tp]
              /\ (op = "gurobipy.solve_model" /\ solution.status = "optimal")
                    => IF config.formulation = "meet_demand_with_capacity"
                       THEN /\ solution.objective = CoveredLoad(solution.y)
                            /\ \A yv \in FeasibleSet : CoveredLoad(yv) <= solution.objective
                       ELSE /\ solution.objective = DeployedCapacity(solution.y)
                            /\ \A yv \in FeasibleSet : DeployedCapacity(yv) >= solution.objective

\* a solved meet_demand_with_capacity model whose optimum covers more load than
\* another feasible deployment, which in turn deploys less capacity
C26_Witness ==
    /\ BackendModel
    /\ op = "gurobipy.solve_model" /\ raised = "None"
    /\ config.formulation = "meet_demand_with_capacity"
    /\ resite.instance.objective.sense = "maximize"
    /\ resite.instance.solution.status = "optimal"
    /\ resite.instance.solution.objective > 0
    /\ \E yv \in FeasibleSet :
          /\ CoveredLoad(yv) < resite.instance.solution.objective
          /\ DeployedCapacity(yv) < DeployedCapacity(resite.instance.solution.y)

\* a backend's build_model was called for meet_demand_with_capacity on built inputs
CapacityRunBuilt ==
    /\ op \in {"pyomo.build_model", "gurobipy.build_model"}
    /\ InputsBuilt(resite)
    /\ config.formulation = "meet_demand_with_capacity"

\* C27: meet_demand_with_capacity has one capacity_target constraint per
\* technology of the configured list: the sum over the technology's points of
\* y * potential is at least the required capacity paired with it in the
\* vector.  This holds also when build_input_data removed a configured
\* technology because no point of non-zero potential remained.
C27_CapacityTargetPerTechnology ==
    CapacityRunBuilt
        => /\ raised = "None"
           /\ DOMAIN resite.instance.capacity_target = Range(resite.technologies)
           /\ \A i \in DOMAIN resite.technologies :
                 LET tech == resite.technologies[i]
                     ct == resite.instance.capacity_target[tech]
                 IN /\ ct.rhs = config.formulation_params[i]
                    /\ DOMAIN ct.coef = {tp \in resite.tech_points_tuples : tp[1] = tech}
                    /\ \A tp \in DOMAIN ct.coef : ct.coef[tp] = resite.cap_potential_ds[tp]

\* the initial points of the run: the points of the regions' shapes
InitPoints == UNION {world.shapes[r] : r \in Range(resite.regions)}

\* the initial points at which the legacy table holds capacity of a technology
LegacyPoints(tech) == {p \in InitPoints : world.legacy[<<tech, p>>] > 0}

\* the configured technologies for which legacy data can be computed (resite.py:129-130)
TechsWithLegacyData ==
    Range(resite.technologies)
        \cap {"wind_onshore", "wind_offshore", "pv_utility", "pv_residential"}

\* C28: with use_ex_cap true, build_input_data adds back every initial point
\* with legacy capacity, also when the filters removed it, and the point list
\* of a technology holds no point twice; every (technology, point) with legacy
\* capacity is in the final index, once, with the legacy value as
\* existing_cap_ds.  With use_ex_cap false the existing capacity is 0 at every
\* TechPoint.
C28_LegacyAddedBack ==
    (op = "build_input_data" /\ raised = "None")
        => IF config.use_ex_cap
           THEN LET filtered == filter_points(resite.technologies, InitPoints,
                                              config.filtering_layers)
                IN /\ \A tech \in TechsWithLegacyData :
                         LET points == add_legacy_points(filtered.dict[tech],
                                                         LegacyPoints(tech))
                         IN /\ Range(points) = filtered.dict[tech] \cup LegacyPoints(tech)
                            /\ \A i, j \in DOMAIN points : points[i] = points[j] => i = j
                            /\ \A p \in LegacyPoints(tech) :
                                  /\ <<tech, p>> \in resite.tech_points_tuples
                                  /\ p \in resite.tech_points_dict[tech]
                                  /\ resite.existing_cap_ds[<<tech, p>>]
                                         = world.legacy[<<tech, p>>]
                                  /\ resite.cap_potential_ds[<<tech, p>>] > 0
           ELSE \A tp \in resite.tech_points_tuples : resite.existing_cap_ds[tp] = 0

\* a run with existing capacity in which one legacy point was removed by a
\* filter and another passed it, both being in the final index with their
\* legacy capacity
C28_Witness ==
    /\ op = "build_input_data" /\ raised = "None"
    /\ config.use_ex_cap
    /\ \E tech \in TechsWithLegacyData :
          LET kept == filter_points(resite.technologies, InitPoints,
                                    config.filtering_layers).dict[tech]
          IN /\ \E p \in LegacyPoints(tech) \ kept :
                   /\ <<tech, p>> \in resite.tech_points_tuples
                   /\ resite.existing_cap_ds[<<tech, p>>] = world.legacy[<<tech, p>>]
             /\ \E p \in LegacyPoints(tech) \cap kept :
                   resite.existing_cap_ds[<<tech, p>>] = world.legacy[<<tech, p>>]

\* C29: after build_input_data the existing-capacity percentage of every
\* TechPoint of the final index lies in [0, 1]: it is the quotient of an
\* existing capacity that is not negative by a positive potential that is not
\* below it, so the floor it puts on y lies within the bounds of y.
C29_PercentageInUnitInterval ==
    (op = "build_input_data" /\ raised = "None")
        => \A tp \in resite.tech_points_tuples :
              LET percentage == resite.existing_cap_percentage_ds[tp]
              IN /\ percentage = <<resite.existing_cap_ds[tp], resite.cap_potential_ds[tp]>>
                 /\ percentage[2] > 0
                 /\ 0 <= percentage[1]
                 /\ percentage[1] <= percentage[2]

\* a run with existing capacity in which one TechPoint has its legacy capacity
\* above the computed potential (percentage 1) and another below it
C29_Witness ==
    /\ op = "build_input_data" /\ raised = "None"
    /\ config.use_ex_cap
    /\ \E tp \in resite.tech_points_tuples :
          /\ world.legacy[tp] > world.potential[tp]
          /\ resite.existing_cap_percentage_ds[tp][1] = world.legacy[tp]
          /\ resite.existing_cap_percentage_ds[tp][2] = world.legacy[tp]
    /\ \E tp \in resite.tech_points_tuples :
          /\ 0 < resite.existing_cap_percentage_ds[tp][1]
          /\ resite.existing_cap_percentage_ds[tp][1] < resite.existing_cap_percentage_ds[tp][2]

\* what C30 says of the selected points and optimal capacities a call of
\* retrieve_solution returned: capacities in units of 1/Scale
WithinBounds(selected, optimal_cap) ==
    /\ \A tp \in resite.tech_points_tuples :
          /\ resite.existing_cap_ds[tp] * Scale <= optimal_cap[tp]
          /\ optimal_cap[tp] <= resite.cap_potential_ds[tp] * Scale
          /\ resite.existing_cap_ds[tp] > 0
                => (tp[1] \in DOMAIN selected /\ tp[2] \in selected[tp[1]])
    /\ Tuples(selected) \subseteq resite.tech_points_tuples
    /\ \A tech \in DOMAIN selected : selected[tech] # {}

\* C30: after retrieve_solution on an optimal model, the optimal capacity of
\* every TechPoint lies between its existing capacity and its capacity
\* potential, every TechPoint with positive existing capacity is among the
\* selected points, the selected points are TechPoints of the index, and a
\* technology without a selected point has no entry in the mapping.
C30_SolutionWithinBounds ==
    /\ (op = "retrieve_solution" /\ raised = "None")
          => WithinBounds(resite.selected_tech_points_dict, resite.optimal_cap_ds)
    /\ (op = "pyomo.build_model" /\ raised = "None")
          => \A s \in Solutions(resite.instance) :
                s.status = "optimal"
                   => LET solved == [resite.instance EXCEPT !.solution = s]
                          r == pyomo_retrieve_solution(SetAttr(resite, "instance", solved))
                      IN /\ r.raised = "None"
                         /\ WithinBounds(r.selected_tech_points_dict, r.optimal_capacity_ds)

\* a retrieved optimum with existing capacity in which one TechPoint is
\* deployed at its legacy floor, strictly below its potential, and another
\* TechPoint of the index is not selected
C30_Witness ==
    /\ op = "retrieve_solution" /\ raised = "None"
    /\ config.use_ex_cap
    /\ \E tp \in resite.tech_points_tuples :
          /\ resite.existing_cap_ds[tp] > 0
          /\ resite.optimal_cap_ds[tp] = resite.existing_cap_ds[tp] * Scale
          /\ resite.optimal_cap_ds[tp] < resite.cap_potential_ds[tp] * Scale
          /\ tp[2] \in resite.selected_tech_points_dict[tp[1]]
    /\ \E tp \in resite.tech_points_tuples :
          /\ resite.optimal_cap_ds[tp] = 0
          /\ tp \notin Tuples(resite.selected_tech_points_dict)

====
